---- MODULE Spec2Model ----
(***************************************************************************)
(* care-dx-app: the extraction / mapping / transcription pipeline of       *)
(* src/app.py as a state machine.                                          *)
(*                                                                         *)
(*   generate_with_retry            the model gateway (rate-limit retry)   *)
(*   extract_from_pdf               upload, poll, fragment loop, cleanup   *)
(*   map_extracted_data_to_schema   batched reconciliation                 *)
(*   write_to_sheet                 the batched cell write                 *)
(*   execute_write_logic            the write stage of a run               *)
(*   generate_*_meeting_summary,                                           *)
(*   extract_from_audio_for_assessment   the single-call audio stages      *)
(*   the main run block             the stages of a run, in sequence       *)
(*                                                                         *)
(* Each function is a small program-counter machine.  The remote services  *)
(* (model, file store, spreadsheet) are the environment: every answer they *)
(* can give is drawn with \E.                                              *)
(***************************************************************************)
EXTENDS Integers, Sequences, FiniteSets, TLC

VARIABLES
    \* ---- generate_with_retry (one invocation)
    gw_pc,        \* "idle" | "running" | "returned" | "raised"
    gw_caller,    \* who invoked it: "none" | "extract" | "reconcile" | "summary"
    retries,      \* the retries argument
    attempt,      \* the for-loop variable
    gw_calls,     \* model.generate_content calls made by this invocation
    gw_sleeps,    \* time.sleep calls made by this invocation
    wait_time,    \* argument of the last time.sleep (0: none yet)
    gw_last,      \* the exception the previous iteration caught (NoError: none, or the loop is over)
    gw_out,       \* what the invocation returned or raised, or Nothing
    \* ---- extract_from_pdf (one invocation)
    ex_pc,        \* "idle" | "start" | "upload" | "poll" | "fragment" | "gateway" | "finally" | "done"
    file_idx,     \* position of `for pdf_file in pdf_files` (1-based)
    file_state,   \* uploaded_file.state.name of the current file, "" before the upload
    handles,      \* files genai.upload_file has created a handle for (a run's
                  \* audio file is "audio")
    uploaded_parts,       \* the list uploaded_parts
    deleted,      \* files genai.delete_file was called for
    full_extracted_data,  \* the accumulator
    frag,         \* position of `for i, schema in enumerate(extraction_schemas)` (1-based)
    retry_count,  \* retry_count of the current fragment
    ex_result,    \* the return value, or Nothing
    \* history of the invocation, read only by the properties
    ex_raised,    \* where an exception escaped to the outer except, "" if none
    blocked_seen, \* the current fragment's prompt has had a blocked response
    outcomes,     \* the ways in which the finished fragments ended
    ok_keys,      \* top-level keys of the fragments that parsed to a mapping
    attempted,    \* the fragments submitted to the gateway, in order of first submission
    frag_subs,    \* generate_with_retry invocations made for the current fragment
    \* ---- map_extracted_data_to_schema (one invocation)
    rc_pc,        \* "idle" | "start" | "batch" | "gateway" | "done"
    raw_data,     \* the raw_data argument
    total_items,  \* len(all_target_details): the number of schema fields
    batch_i,      \* the loop variable i of range(0, total_items, BATCH_SIZE)
    mapped_results,       \* the accumulator
    rc_result,    \* the return value, or Nothing
    \* history of the invocation, read only by the properties
    rc_batches,   \* the slices [lo, hi] of all_target_details sent so far
    rc_blocked,   \* current_batch_num of the last batch whose response was blocked (0: none)
    rc_outcomes,  \* the ways in which the finished batches ended
    \* ---- the fragment merge on its own
    merge_in,     \* the parsed fragments <<R1, R2>> to merge, in order
    merge_n,      \* how many of them have been merged
    \* ---- the JSON step of a fragment and of a batch on its own
    rp_doc,       \* the serialised object the model was to answer with
    rp_cut,       \* where its text was cut: [at, inside]
    result_text,  \* the text given to json.loads
    rp_pc,        \* "idle" | "loads" | "patterns" | "batch" | "done"
    rp_p,         \* position of `for p in patterns` (1-based, 0 before the loop)
    section_data, \* section_data of the fragment's JSON step
    batch_result, \* batch_result of the batch's JSON step
    \* ---- write_to_sheet (one invocation)
    ws_pc,        \* "idle" | "open" | "build" | "send" | "done"
    ws_caller,    \* "none" | "sheet1" | "sheet2"
    ws_id,        \* the spreadsheet_id argument
    ws_mapping,   \* the mapping_dict argument
    ws_data,      \* the extracted_data argument
    ws_sheet_name,\* the sheet_name argument ("" for None)
    worksheet,    \* the worksheet opened ("" before)
    updates,      \* the list updates
    write_count,  \* the counter write_count
    ws_ret,       \* the returned (success, url, write_count), or Nothing
    \* ---- the spreadsheet service
    batch_log,    \* the batch_update calls received: [id, sheet, data, ok]
    \* ---- execute_write_logic (one invocation, PDF mode)
    ewl_pc,       \* "idle" | "auth" | "copy" | "sheet1" | "manual" | "sheet2" | "done"
    spreadsheet_id,       \* the spreadsheet_id argument
    enable_template_protection,
    session,      \* st.session_state: mapping_dict, extracted_data, mapping2_dict,
                  \* extracted_data2, manual (the truthy assessment_manual_inputs)
    target_sheet_id,
    success,      \* success of the first sheet's write
    ewl_count,    \* execute_write_logic's write_count
    ewl_ret,      \* the returned (success, url, write_count), or Nothing
    \* ---- a single-call audio stage (one invocation)
    sm_pc,        \* "idle" | "call" | "gateway" | "answered" | "done"
    sm_kind,      \* "service" | "management" | "assessment": which function
    sm_answer,    \* what the model call returned or raised, or Nothing
    sm_result,    \* the return value, or Nothing
    sm_reports,   \* the st.error / st.warning reports made: "error", "warning"
    \* ---- the main run block (one run)
    run_pc,       \* "idle" | "audio" | "audio_poll" | "audio_extract" | "extract" |
                  \* "reconcile" | "reconcile2" | "upload" | "poll" | "summary" |
                  \* "write" | "writing" | "finally" | "done"
    run_mode,     \* "pdf" | "service" | "management"
    raw_extracted_data,     \* the PDF run's raw record
    mapped_extracted_data,  \* what the reconciler returned for sheet 1, or Nothing
    summary_data, \* what the summarizer returned, or Nothing
    run_log,      \* the stage functions called so far, in order
    row_log       \* the append_row calls the spreadsheet service received

gwVars == <<gw_pc, gw_caller, retries, attempt, gw_calls, gw_sleeps, wait_time, gw_last, gw_out>>

exVars == <<ex_pc, file_idx, file_state, handles, uploaded_parts, deleted,
            full_extracted_data, frag, retry_count, ex_result,
            ex_raised, blocked_seen, outcomes, ok_keys, attempted, frag_subs>>

rcVars == <<rc_pc, raw_data, total_items, batch_i, mapped_results, rc_result,
            rc_batches, rc_blocked, rc_outcomes>>

rpVars == <<rp_doc, rp_cut, result_text, rp_pc, rp_p, section_data, batch_result>>

mgVars == <<merge_in, merge_n, rpVars>>

wsVars == <<ws_pc, ws_caller, ws_id, ws_mapping, ws_data, ws_sheet_name, worksheet,
            updates, write_count, ws_ret, batch_log>>

ewlVars == <<ewl_pc, spreadsheet_id, enable_template_protection, session,
             target_sheet_id, success, ewl_count, ewl_ret>>

smVars == <<sm_pc, sm_kind, sm_answer, sm_result, sm_reports>>

runVars == <<run_pc, run_mode, raw_extracted_data, mapped_extracted_data,
             summary_data, run_log, row_log>>

vars == <<gwVars, exVars, rcVars, mgVars, wsVars, ewlVars, smVars, runVars>>

\* ---------------------------------------------------------------- bounds

\* generate_with_retry alone is run with retries in 0..MaxRetriesArg.
MaxRetriesArg == 3

\* extract_from_pdf is run on NumFiles files and NumFragments fragments
\* (generate_extraction_schemas() is not among the sources; its length is
\* a parameter of the model).
NumFiles == 2
NumFragments == 3

\* map_extracted_data_to_schema is run on schemas of 0..MaxFields fields.
MaxFields == 61
MaxStrLen == 3

\* The JSON step on its own is run on objects nested MaxDepth deep.
MaxDepth == 2

\* ------------------------------------------------------ program constants

\* def generate_with_retry(model, prompt_parts, retries=3)
DefaultRetries == 3
\* wait_time = 32  (the fallback when the message names no delay)
DefaultWait == 32
\* wait_time = float(match.group(1)) + 2
WaitMargin == 2

\* max_retries = 5  (per fragment, in extract_from_pdf)
max_retries == 5

\* BATCH_SIZE = 30  (fields per reconciliation batch)
BATCH_SIZE == 30

\* ------------------------------------------------------------ the values

Nothing == [kind |-> "nothing"]
NoError == [kind |-> "no_error"]
NoHint == 0

\* Top-level keys and values of the JSON objects the model answers with.
Keys == {"k1", "k2"}
Vals == {"v1", "v2"}

\* A JSON object: a mapping from some of the keys to values (dict).
Objects == UNION {[D -> Vals] : D \in SUBSET Keys}
EmptyObject == [k \in {} |-> "v1"]

\* What response.text holds once the markdown fence is stripped, described by
\* what json.loads makes of it:
\*   object     parses to the mapping obj
\*   scalar     parses to a truthy value dict.update rejects at once
\*              (5, "abc", [5])
\*   pairs      parses to an array whose elements are all two-element
\*              sequences; obj is the mapping dict.update makes of them
\*   partial    parses to an array that starts with two-element sequences
\*              (obj) and goes on with an element that is not one
\*   truncated  json.loads raises "Unterminated string ..."; `fix` is the first
\*              closing suffix after which it parses (0: none does) and obj the
\*              mapping it then parses to
\*   malformed  json.loads raises another JSONDecodeError
NumPatterns == 7
Texts ==
    {[kind |-> "object", obj |-> o, fix |-> 0] : o \in Objects}
    \cup {[kind |-> "scalar", obj |-> EmptyObject, fix |-> 0]}
    \cup {[kind |-> a, obj |-> o, fix |-> 0] :
              a \in {"pairs", "partial"}, o \in {x \in Objects : DOMAIN x = {"k1"}}}
    \cup {[kind |-> "truncated", obj |-> o, fix |-> p] :
              o \in {x \in Objects : DOMAIN x = {"k1"}}, p \in {1, NumPatterns}}
    \cup {[kind |-> "truncated", obj |-> EmptyObject, fix |-> 0]}
    \cup {[kind |-> "malformed", obj |-> EmptyObject, fix |-> 0]}

\* A response of model.generate_content: candidates present, with a text; or
\* candidates present but response.text raises (no text part); or no
\* candidates at all (the prompt was blocked).
Responses ==
    {[kind |-> "response", candidates |-> TRUE, has_text |-> TRUE, text |-> t] : t \in Texts}
    \cup {[kind |-> "response", candidates |-> TRUE, has_text |-> FALSE,
           text |-> [kind |-> "malformed", obj |-> EmptyObject, fix |-> 0]]}
    \cup {[kind |-> "response", candidates |-> FALSE, has_text |-> FALSE,
           text |-> [kind |-> "malformed", obj |-> EmptyObject, fix |-> 0]]}

\* The exceptions model.generate_content raises, by what str(e) contains: the
\* rate-limit markers the gateway looks for and the delay of a
\* "retry in <n>s" clause (NoHint: no such clause).
Markers == {"429", "quota", "resource exhausted"}
Errors ==
    {[kind |-> "error", markers |-> {"429"}, hint |-> 10],
     [kind |-> "error", markers |-> {"429", "quota"}, hint |-> NoHint],
     [kind |-> "error", markers |-> {"resource exhausted"}, hint |-> NoHint],
     [kind |-> "error", markers |-> {}, hint |-> NoHint],
     [kind |-> "error", markers |-> {}, hint |-> 10]}

\* --------------------------------------------------- generate_with_retry

\* if "429" in error_str or "quota" in error_str.lower()
\*    or "resource exhausted" in error_str.lower()
\* A gateway that takes every error for a rate-limit error.
IsRateLimitAny(e) == TRUE

IsRateLimit(e) ==
    \/ "429" \in e.markers
    \/ "quota" \in e.markers
    \/ "resource exhausted" \in e.markers

\* wait_time = 32; match = re.search(r"retry in (\d+(\.\d+)?)s", error_str);
\* if match: wait_time = float(match.group(1)) + 2
WaitTime(e) == IF e.hint # NoHint THEN e.hint + WaitMargin ELSE DefaultWait

\* Entering generate_with_retry(model, prompt_parts, retries=n) from `caller`.
GwEnter(caller, n) ==
    /\ gw_pc' = "running"
    /\ gw_caller' = caller
    /\ retries' = n
    /\ attempt' = 0
    /\ gw_calls' = 0
    /\ gw_sleeps' = 0
    /\ wait_time' = 0
    /\ gw_last' = NoError
    /\ gw_out' = Nothing

\* Leaving the gateway: the caller has taken the result.
GwReset ==
    /\ gw_pc' = "idle"
    /\ gw_caller' = "none"
    /\ retries' = 0
    /\ attempt' = 0
    /\ gw_calls' = 0
    /\ gw_sleeps' = 0
    /\ wait_time' = 0
    /\ gw_last' = NoError
    /\ gw_out' = Nothing

\* The function is left (return or raise): its frame is gone, the locals
\* read as before the call.  gw_calls and gw_sleeps stay for the caller's
\* side of the properties.
GwFrameDropped ==
    /\ attempt' = 0
    /\ wait_time' = 0
    /\ gw_last' = NoError

\* One iteration of `for attempt in range(retries)` whose call succeeds:
\* return model.generate_content(prompt_parts).
GwCallReturns ==
    /\ gw_pc = "running"
    /\ attempt < retries
    /\ \E r \in Responses :
        /\ gw_out' = r
        /\ gw_pc' = "returned"
        /\ gw_calls' = gw_calls + 1
    /\ GwFrameDropped
    /\ UNCHANGED <<gw_caller, retries, gw_sleeps>>

\* One iteration whose call raises: the except clause.
GwCallRaises ==
    /\ gw_pc = "running"
    /\ attempt < retries
    /\ \E e \in Errors :
        /\ gw_calls' = gw_calls + 1
        /\ IF IsRateLimit(e) /\ attempt < retries - 1
           THEN \* st.warning; time.sleep(wait_time); continue
                /\ wait_time' = WaitTime(e)
                /\ gw_sleeps' = gw_sleeps + 1
                /\ attempt' = attempt + 1
                /\ gw_last' = e
                /\ UNCHANGED <<gw_pc, gw_out>>
           ELSE \* raise e
                /\ gw_pc' = "raised"
                /\ gw_out' = e
                /\ GwFrameDropped
                /\ UNCHANGED gw_sleeps
    /\ UNCHANGED <<gw_caller, retries>>

\* range(retries) is exhausted without a return or a raise (retries <= 0):
\* the function falls off its end and returns None.
GwFallsThrough ==
    /\ gw_pc = "running"
    /\ attempt >= retries
    /\ gw_pc' = "returned"
    /\ gw_out' = Nothing
    /\ GwFrameDropped
    /\ UNCHANGED <<gw_caller, retries, gw_calls, gw_sleeps>>

GwStep == GwCallReturns \/ GwCallRaises \/ GwFallsThrough

\* generate_with_retry on its own, for every retries argument in the bound.
GwInit ==
    /\ gw_pc = "running"
    /\ gw_caller = "none"
    /\ retries \in 0..MaxRetriesArg
    /\ attempt = 0
    /\ gw_calls = 0
    /\ gw_sleeps = 0
    /\ wait_time = 0
    /\ gw_last = NoError
    /\ gw_out = Nothing

GwIdle ==
    /\ gw_pc = "idle"
    /\ gw_caller = "none"
    /\ retries = 0
    /\ attempt = 0
    /\ gw_calls = 0
    /\ gw_sleeps = 0
    /\ wait_time = 0
    /\ gw_last = NoError
    /\ gw_out = Nothing


\* ------------------------------------------------------ extract_from_pdf

None == [kind |-> "none"]
Record(o) == [kind |-> "record", obj |-> o]

Files == 1..NumFiles
Range(q) == {q[n] : n \in 1..Len(q)}

\* A merge that keeps the value a key already has.
UpdateKeepFirst(acc, other) ==
    [k \in (DOMAIN acc) \cup (DOMAIN other) |->
        IF k \in DOMAIN acc THEN acc[k] ELSE other[k]]

\* dict.update: every key of `other` is set to other's value, the rest of
\* `acc` is kept.
Update(acc, other) ==
    [k \in (DOMAIN acc) \cup (DOMAIN other) |->
        IF k \in DOMAIN other THEN other[k] ELSE acc[k]]

\* The fragment's JSON step (lines 520-536): json.loads, and on
\* "Unterminated string" the seven closing suffixes in order, the first that
\* parses wins.  section_data stays None when nothing parses.
ParseFragment(t) ==
    CASE t.kind = "object" -> [kind |-> "mapping", obj |-> t.obj]
      [] t.kind = "scalar" -> [kind |-> "scalar", obj |-> EmptyObject]
      [] t.kind \in {"pairs", "partial"} -> [kind |-> t.kind, obj |-> t.obj]
      [] t.kind = "truncated" /\ t.fix \in 1..NumPatterns -> [kind |-> "mapping", obj |-> t.obj]
      [] OTHER -> [kind |-> "none", obj |-> EmptyObject]

\* `if section_data:` -- None and the empty mapping are falsy.
Truthy(d) ==
    \/ d.kind \in {"scalar", "pairs", "partial"}
    \/ d.kind = "mapping" /\ d.obj # EmptyObject

\* What dict.update(d) has inserted when it returns or raises: the items of
\* a mapping; the pairs of an array up to its first element that is no
\* pair, where update raises; nothing of a value it cannot iterate.
Inserted(d) == IF d.kind \in {"mapping", "pairs", "partial"} THEN d.obj ELSE EmptyObject

\* dict.update(d) raises.
UpdateRaises(d) == d.kind \in {"scalar", "partial"}

RpIdle ==
    /\ rp_doc = <<>>
    /\ rp_cut = [at |-> 0, inside |-> FALSE]
    /\ result_text = <<>>
    /\ rp_pc = "idle"
    /\ rp_p = 0
    /\ section_data = <<>>
    /\ batch_result = <<>>

MgIdle ==
    /\ merge_in = <<>>
    /\ merge_n = 0
    /\ RpIdle

WsIdle ==
    /\ ws_pc = "idle"
    /\ ws_caller = "none"
    /\ ws_id = ""
    /\ ws_mapping = <<>>
    /\ ws_data = <<>>
    /\ ws_sheet_name = ""
    /\ worksheet = ""
    /\ updates = <<>>
    /\ write_count = 0
    /\ ws_ret = Nothing
    /\ batch_log = <<>>

EwlIdle ==
    /\ ewl_pc = "idle"
    /\ spreadsheet_id = ""
    /\ enable_template_protection = FALSE
    /\ session = Nothing
    /\ target_sheet_id = ""
    /\ success = FALSE
    /\ ewl_count = 0
    /\ ewl_ret = Nothing

SmIdle ==
    /\ sm_pc = "idle"
    /\ sm_kind = "none"
    /\ sm_answer = Nothing
    /\ sm_result = Nothing
    /\ sm_reports = {}

RunIdle ==
    /\ run_pc = "idle"
    /\ run_mode = "none"
    /\ raw_extracted_data = EmptyObject
    /\ mapped_extracted_data = Nothing
    /\ summary_data = Nothing
    /\ run_log = <<>>
    /\ row_log = <<>>

OthersIdle == MgIdle /\ WsIdle /\ EwlIdle /\ SmIdle /\ RunIdle
others == <<mgVars, wsVars, ewlVars, smVars, runVars>>

RcIdle ==
    /\ rc_pc = "idle"
    /\ raw_data = EmptyObject
    /\ total_items = 0
    /\ batch_i = 0
    /\ mapped_results = EmptyObject
    /\ rc_result = Nothing
    /\ rc_batches = <<>>
    /\ rc_blocked = 0
    /\ rc_outcomes = {}

ExIdle ==
    /\ ex_pc = "idle"
    /\ file_idx = 1
    /\ file_state = ""
    /\ handles = {}
    /\ uploaded_parts = <<>>
    /\ deleted = {}
    /\ full_extracted_data = EmptyObject
    /\ frag = 1
    /\ retry_count = 0
    /\ ex_result = Nothing
    /\ ex_raised = ""
    /\ blocked_seen = FALSE
    /\ outcomes = {}
    /\ ok_keys = {}
    /\ attempted = <<>>
    /\ frag_subs = 0

\* The outer `except Exception`: st.error, return None; the finally clause
\* is still to run.
ExPipelineRaise(where) ==
    /\ ex_raised' = where
    /\ ex_result' = None
    /\ ex_pc' = "finally"

\* extraction_schemas = generate_extraction_schemas()
ExLoadSchemas ==
    /\ ex_pc = "start"
    /\ \/ /\ ex_pc' = "upload"
          /\ UNCHANGED <<ex_result, ex_raised>>
       \/ ExPipelineRaise("schemas")
    /\ UNCHANGED <<file_idx, file_state, handles, uploaded_parts, deleted,
                   full_extracted_data, frag, retry_count, blocked_seen, outcomes, ok_keys, attempted, frag_subs>>
    /\ UNCHANGED <<gwVars, rcVars, others>>

\* file_data = pdf_file.read(); uploaded_file = genai.upload_file(...)
ExUpload ==
    /\ ex_pc = "upload"
    /\ file_idx <= NumFiles
    /\ \/ \E st \in {"PROCESSING", "ACTIVE", "FAILED"} :
            /\ handles' = handles \cup {file_idx}
            /\ file_state' = st
            /\ ex_pc' = "poll"
            /\ UNCHANGED <<ex_result, ex_raised>>
       \/ /\ ExPipelineRaise("upload")
          /\ UNCHANGED <<handles, file_state>>
    /\ UNCHANGED <<file_idx, uploaded_parts, deleted, full_extracted_data, frag,
                   retry_count, blocked_seen, outcomes, ok_keys, attempted, frag_subs>>
    /\ UNCHANGED <<gwVars, rcVars, others>>

\* A file service on which the file never leaves PROCESSING.
ExPollForever ==
    /\ ex_pc = "poll"
    /\ file_state = "PROCESSING"
    /\ file_state' = "PROCESSING"
    /\ UNCHANGED <<ex_pc, ex_result, ex_raised>>
    /\ UNCHANGED <<file_idx, handles, uploaded_parts, deleted, full_extracted_data,
                   frag, retry_count, blocked_seen, outcomes, ok_keys, attempted, frag_subs>>
    /\ UNCHANGED <<gwVars, rcVars, others>>

\* while uploaded_file.state.name == "PROCESSING":
\*     time.sleep(1); uploaded_file = genai.get_file(uploaded_file.name)
ExPoll ==
    /\ ex_pc = "poll"
    /\ file_state = "PROCESSING"
    /\ \/ \E st \in {"PROCESSING", "ACTIVE", "FAILED"} :
            /\ file_state' = st
            /\ UNCHANGED <<ex_pc, ex_result, ex_raised>>
       \/ /\ ExPipelineRaise("poll")
          /\ UNCHANGED file_state
    /\ UNCHANGED <<file_idx, handles, uploaded_parts, deleted, full_extracted_data,
                   frag, retry_count, blocked_seen, outcomes, ok_keys, attempted, frag_subs>>
    /\ UNCHANGED <<gwVars, rcVars, others>>

\* An upload loop without the FAILED test: every file that has left
\* PROCESSING is appended.
ExKeepFileAny ==
    /\ ex_pc = "poll"
    /\ file_state # "PROCESSING"
    /\ uploaded_parts' = Append(uploaded_parts, file_idx)
    /\ file_idx' = file_idx + 1
    /\ file_state' = ""
    /\ ex_pc' = "upload"
    /\ UNCHANGED <<handles, deleted, full_extracted_data, frag, retry_count,
                   ex_result, ex_raised, blocked_seen, outcomes, ok_keys, attempted, frag_subs>>
    /\ UNCHANGED <<gwVars, rcVars, others>>

\* if uploaded_file.state.name == "FAILED": st.error(...); continue
\* uploaded_parts.append(uploaded_file); pdf_file.seek(0)
ExKeepFile ==
    /\ ex_pc = "poll"
    /\ file_state # "PROCESSING"
    /\ uploaded_parts' = IF file_state = "FAILED" THEN uploaded_parts
                         ELSE Append(uploaded_parts, file_idx)
    /\ file_idx' = file_idx + 1
    /\ file_state' = ""
    /\ ex_pc' = "upload"
    /\ UNCHANGED <<handles, deleted, full_extracted_data, frag, retry_count,
                   ex_result, ex_raised, blocked_seen, outcomes, ok_keys, attempted, frag_subs>>
    /\ UNCHANGED <<gwVars, rcVars, others>>

\* full_extracted_data = {}; the fragment loop starts.
ExStartFragments ==
    /\ ex_pc = "upload"
    /\ file_idx > NumFiles
    /\ full_extracted_data' = EmptyObject
    /\ frag' = 1
    /\ retry_count' = 0
    /\ ex_pc' = "fragment"
    /\ UNCHANGED <<file_idx, file_state, handles, uploaded_parts, deleted,
                   ex_result, ex_raised, blocked_seen, outcomes, ok_keys, attempted, frag_subs>>
    /\ UNCHANGED <<gwVars, rcVars, others>>

\* while retry_count < max_retries:
\*     response = generate_with_retry(model, prompt_parts)
ExFragmentCall ==
    /\ ex_pc = "fragment"
    /\ frag <= NumFragments
    /\ retry_count < max_retries
    /\ GwEnter("extract", DefaultRetries)
    /\ ex_pc' = "gateway"
    /\ UNCHANGED <<rcVars, others>>
    /\ attempted' = IF frag \in Range(attempted) THEN attempted ELSE Append(attempted, frag)
    /\ frag_subs' = frag_subs + 1
    /\ UNCHANGED <<file_idx, file_state, handles, uploaded_parts, deleted,
                   full_extracted_data, frag, retry_count, ex_result,
                   ex_raised, blocked_seen, outcomes, ok_keys>>

\* The fragment is over (merged, skipped, or its exception printed by the
\* per-fragment `except Exception`): progress_bar.progress, next fragment.
ExNextFragment(outcome) ==
    /\ outcomes' = outcomes \cup {outcome}
    /\ frag' = frag + 1
    /\ retry_count' = 0
    /\ blocked_seen' = FALSE
    /\ frag_subs' = 0
    /\ ex_pc' = "fragment"

\* Another round of the retry loop: time.sleep(2); continue
ExRetryFragment ==
    /\ retry_count' = retry_count + 1
    /\ ex_pc' = "fragment"
    /\ UNCHANGED <<frag, outcomes, frag_subs>>

\* generate_with_retry returned a response without candidates.
ExOnBlocked ==
    /\ ex_pc = "gateway"
    /\ gw_caller = "extract"
    /\ gw_pc = "returned"
    /\ gw_out.kind = "response"
    /\ ~gw_out.candidates
    /\ IF retry_count + 1 < max_retries
       THEN /\ ExRetryFragment
            /\ blocked_seen' = TRUE
       ELSE \* raise Exception("... blocked after 5 retries"), re-raised by the
            \* inner except, printed by the per-fragment except
            ExNextFragment("blocked")
    /\ GwReset
    /\ UNCHANGED <<rcVars, others>>
    /\ UNCHANGED <<file_idx, file_state, handles, uploaded_parts, deleted,
                   full_extracted_data, ex_result, ex_raised, ok_keys, attempted>>

\* generate_with_retry raised: the inner `except Exception`.
ExOnError ==
    /\ ex_pc = "gateway"
    /\ gw_caller = "extract"
    /\ gw_pc = "raised"
    /\ IF retry_count + 1 < max_retries
       THEN /\ ExRetryFragment
            /\ UNCHANGED blocked_seen
       ELSE ExNextFragment("raised")
    /\ GwReset
    /\ UNCHANGED <<rcVars, others>>
    /\ UNCHANGED <<file_idx, file_state, handles, uploaded_parts, deleted,
                   full_extracted_data, ex_result, ex_raised, ok_keys, attempted>>

\* `if section_data: full_extracted_data.update(section_data)`; what update
\* inserted before it raised stays in the accumulator.
MergeFragment(acc, d) ==
    IF Truthy(d) THEN Update(acc, Inserted(d)) ELSE acc

\* How the fragment ends: merged; nothing to merge (the else branch's
\* warning); the per-fragment except; nothing parsed.
FragmentOutcome(d) ==
    CASE d.kind = "none" -> "unparseable"
      [] ~Truthy(d) -> "empty"
      [] UpdateRaises(d) -> "raised"
      [] OTHER -> "ok"

\* generate_with_retry returned a response with candidates: break, then
\* result_text = response.text, the JSON step and the merge.
ExOnResponse ==
    /\ ex_pc = "gateway"
    /\ gw_caller = "extract"
    /\ gw_pc = "returned"
    /\ gw_out.kind = "response"
    /\ gw_out.candidates
    /\ IF ~gw_out.has_text
       THEN \* response.text raises ValueError
            /\ ExNextFragment("raised")
            /\ UNCHANGED <<full_extracted_data, ok_keys>>
       ELSE LET d == ParseFragment(gw_out.text) IN
            /\ full_extracted_data' = MergeFragment(full_extracted_data, d)
            /\ ok_keys' = IF FragmentOutcome(d) = "ok"
                           THEN ok_keys \cup DOMAIN d.obj ELSE ok_keys
            /\ ExNextFragment(FragmentOutcome(d))
    /\ GwReset
    /\ UNCHANGED <<rcVars, others>>
    /\ UNCHANGED <<file_idx, file_state, handles, uploaded_parts, deleted,
                   ex_result, ex_raised, attempted>>

\* A return that reports an empty accumulator as None.
ReturnValueOrNone(acc) == IF acc = EmptyObject THEN None ELSE Record(acc)

\* return full_extracted_data
ReturnValue(acc) == Record(acc)

ExReturn ==
    /\ ex_pc = "fragment"
    /\ frag > NumFragments
    /\ ex_result' = ReturnValue(full_extracted_data)
    /\ ex_pc' = "finally"
    /\ UNCHANGED <<file_idx, file_state, handles, uploaded_parts, deleted,
                   full_extracted_data, frag, retry_count,
                   ex_raised, blocked_seen, outcomes, ok_keys, attempted, frag_subs>>
    /\ UNCHANGED <<gwVars, rcVars, others>>

\* finally: for up_file in uploaded_parts: genai.delete_file(up_file.name)
\* (an exception of delete_file is printed and the loop goes on).
FilesToDelete == Range(uploaded_parts)

ExFinally ==
    /\ ex_pc = "finally"
    /\ deleted' = deleted \cup FilesToDelete
    /\ ex_pc' = "done"
    /\ UNCHANGED <<file_idx, file_state, handles, uploaded_parts,
                   full_extracted_data, frag, retry_count, ex_result,
                   ex_raised, blocked_seen, outcomes, ok_keys, attempted, frag_subs>>
    /\ UNCHANGED <<gwVars, rcVars, others>>

ExtractInit ==
    /\ GwIdle
    /\ RcIdle
    /\ OthersIdle
    /\ ex_pc = "start"
    /\ file_idx = 1
    /\ file_state = ""
    /\ handles = {}
    /\ uploaded_parts = <<>>
    /\ deleted = {}
    /\ full_extracted_data = EmptyObject
    /\ frag = 1
    /\ retry_count = 0
    /\ ex_result = Nothing
    /\ ex_raised = ""
    /\ blocked_seen = FALSE
    /\ outcomes = {}
    /\ ok_keys = {}
    /\ attempted = <<>>
    /\ frag_subs = 0

ExtractNext ==
    \/ ExLoadSchemas
    \/ ExUpload
    \/ ExPoll
    \/ ExKeepFile
    \/ ExStartFragments
    \/ ExFragmentCall
    \/ (GwStep /\ gw_caller = "extract" /\ UNCHANGED <<exVars, rcVars, others>>)
    \/ ExOnBlocked
    \/ ExOnError
    \/ ExOnResponse
    \/ ExReturn
    \/ ExFinally

SpecExtract == ExtractInit /\ [][ExtractNext]_vars

\* A poll that sees the file out of PROCESSING, or get_file raising.
ExPollLeaves == ExPoll /\ (file_state' # "PROCESSING" \/ ex_pc' # "poll")

\* The run with its environment's promises: every uploaded file leaves
\* PROCESSING in the end, every call of the model or of the file service
\* returns or raises in the end, and the interpreter goes on.
SpecExtractLive ==
    /\ ExtractInit
    /\ [][ExtractNext]_vars
    /\ WF_vars(ExPollLeaves)
    /\ WF_vars(ExtractNext)

\* ------------------------------------------ map_extracted_data_to_schema

\* The raw records the reconciler is given.
RawRecords == {EmptyObject, [k \in {"k1"} |-> "v1"], [k \in Keys |-> "v2"]}

Min(a, b) == IF a < b THEN a ELSE b

\* The keys of mapping_dict (lines 307-314) among the keys a response can
\* have: "k1" is the name of the schema's first field and "k2" the name of
\* field BATCH_SIZE + 1, so of no field when the schema has one batch only.
FieldPosition(k) == IF k = "k1" THEN 1 ELSE BATCH_SIZE + 1
SchemaFieldNames(n) == {k \in Keys : FieldPosition(k) <= n}

\* current_batch_num = (i // BATCH_SIZE) + 1
BatchNum(i) == (i \div BATCH_SIZE) + 1

\* A slicing that takes one field more than the batch size.
BatchSliceOverlap(i, n) == [lo |-> i + 1, hi |-> Min(i + BATCH_SIZE + 1, n)]

\* batch_details = all_target_details[i:i + BATCH_SIZE], as the 1-based
\* positions [lo, hi] of the fields it holds.
BatchSlice(i, n) == [lo |-> i + 1, hi |-> Min(i + BATCH_SIZE, n)]

\* The batch's JSON step (lines 391-402): json.loads; on "Unterminated
\* string" only the suffix '"}' (the first of the extractor's list) is tried;
\* batch_result stays {} when nothing parses.
ParseBatch(t) ==
    CASE t.kind = "object" -> [kind |-> "mapping", obj |-> t.obj]
      [] t.kind = "scalar" -> [kind |-> "scalar", obj |-> EmptyObject]
      [] t.kind \in {"pairs", "partial"} -> [kind |-> t.kind, obj |-> t.obj]
      [] t.kind = "truncated" /\ t.fix = 1 -> [kind |-> "mapping", obj |-> t.obj]
      [] OTHER -> [kind |-> "mapping", obj |-> EmptyObject]

\* if not mapping_dict or not raw_data: return raw_data
\* otherwise mapped_results = {} and the batch loop starts.
RcStart ==
    /\ rc_pc = "start"
    /\ IF total_items = 0 \/ raw_data = EmptyObject
       THEN /\ rc_result' = Record(raw_data)
            /\ rc_pc' = "done"
       ELSE /\ rc_pc' = "batch"
            /\ UNCHANGED rc_result
    /\ mapped_results' = EmptyObject
    /\ batch_i' = 0
    /\ UNCHANGED <<raw_data, total_items, rc_batches, rc_blocked, rc_outcomes>>
    /\ UNCHANGED <<gwVars, exVars, others>>

\* for i in range(0, total_items, BATCH_SIZE): build the prompt of the batch,
\* response = generate_with_retry(model, prompt)
RcBatchCall ==
    /\ rc_pc = "batch"
    /\ batch_i < total_items
    /\ GwEnter("reconcile", DefaultRetries)
    /\ rc_batches' = Append(rc_batches, BatchSlice(batch_i, total_items))
    /\ rc_pc' = "gateway"
    /\ UNCHANGED <<raw_data, total_items, batch_i, mapped_results, rc_result,
                   rc_blocked, rc_outcomes>>
    /\ UNCHANGED <<exVars, others>>

\* A reconciler that submits a blocked batch again.
AfterBlockedBatchRetry(i) == i

\* The loop variable after a batch whose response was blocked: `continue`.
AfterBlockedBatch(i) == i + BATCH_SIZE

\* The batch is over: the loop goes to the next slice.
RcNextBatch(outcome) ==
    /\ batch_i' = batch_i + BATCH_SIZE
    /\ rc_outcomes' = rc_outcomes \cup {outcome}
    /\ rc_pc' = "batch"

\* if not response.candidates: st.warning(...); continue
RcOnBlocked ==
    /\ rc_pc = "gateway"
    /\ gw_caller = "reconcile"
    /\ gw_pc = "returned"
    /\ gw_out.kind = "response"
    /\ ~gw_out.candidates
    /\ batch_i' = AfterBlockedBatch(batch_i)
    /\ rc_outcomes' = rc_outcomes \cup {"blocked"}
    /\ rc_pc' = "batch"
    /\ rc_blocked' = BatchNum(batch_i)
    /\ GwReset
    /\ UNCHANGED <<raw_data, total_items, mapped_results, rc_result, rc_batches>>
    /\ UNCHANGED <<exVars, others>>

\* A reconciler that gives up when a call raises.
RcOnErrorAbort ==
    /\ rc_pc = "gateway"
    /\ gw_caller = "reconcile"
    /\ gw_pc = "raised"
    /\ rc_result' = None
    /\ rc_pc' = "done"
    /\ GwReset
    /\ UNCHANGED <<raw_data, total_items, batch_i, mapped_results, rc_batches,
                   rc_blocked, rc_outcomes>>
    /\ UNCHANGED <<exVars, others>>

\* generate_with_retry raised: the per-batch `except Exception` (st.error).
RcOnError ==
    /\ rc_pc = "gateway"
    /\ gw_caller = "reconcile"
    /\ gw_pc = "raised"
    /\ RcNextBatch("raised")
    /\ GwReset
    /\ UNCHANGED <<raw_data, total_items, mapped_results, rc_result, rc_batches, rc_blocked>>
    /\ UNCHANGED <<exVars, others>>

\* `if batch_result: mapped_results.update(batch_result)`; what update
\* inserted before it raised stays in mapped_results.
MergeBatch(acc, d) ==
    IF Truthy(d) THEN Update(acc, Inserted(d)) ELSE acc

BatchOutcome(t, d) ==
    CASE UpdateRaises(d) -> "raised"
      [] t.kind \in {"malformed", "truncated"} /\ d.obj = EmptyObject -> "unparseable"
      [] Truthy(d) -> "ok"
      [] OTHER -> "empty"

\* A response with candidates: text = response.text, the JSON step, the merge.
RcOnResponse ==
    /\ rc_pc = "gateway"
    /\ gw_caller = "reconcile"
    /\ gw_pc = "returned"
    /\ gw_out.kind = "response"
    /\ gw_out.candidates
    /\ IF ~gw_out.has_text
       THEN \* response.text raises ValueError
            /\ RcNextBatch("raised")
            /\ UNCHANGED mapped_results
       ELSE LET d == ParseBatch(gw_out.text) IN
            /\ mapped_results' = MergeBatch(mapped_results, d)
            /\ RcNextBatch(BatchOutcome(gw_out.text, d))
    /\ GwReset
    /\ UNCHANGED <<raw_data, total_items, rc_result, rc_batches, rc_blocked>>
    /\ UNCHANGED <<exVars, others>>

\* return mapped_results
RcReturn ==
    /\ rc_pc = "batch"
    /\ batch_i >= total_items
    /\ rc_result' = Record(mapped_results)
    /\ rc_pc' = "done"
    /\ UNCHANGED <<raw_data, total_items, batch_i, mapped_results, rc_batches,
                   rc_blocked, rc_outcomes>>
    /\ UNCHANGED <<gwVars, exVars, others>>

ReconcileInit ==
    /\ GwIdle
    /\ ExIdle
    /\ OthersIdle
    /\ rc_pc = "start"
    /\ raw_data \in RawRecords
    /\ total_items \in 0..MaxFields
    /\ batch_i = 0
    /\ mapped_results = EmptyObject
    /\ rc_result = Nothing
    /\ rc_batches = <<>>
    /\ rc_blocked = 0
    /\ rc_outcomes = {}

ReconcileNext ==
    \/ RcStart
    \/ RcBatchCall
    \/ (GwStep /\ gw_caller = "reconcile" /\ UNCHANGED <<exVars, rcVars, others>>)
    \/ RcOnBlocked
    \/ RcOnError
    \/ RcOnResponse
    \/ RcReturn

SpecReconcile == ReconcileInit /\ [][ReconcileNext]_vars

\* One call of either model-calling stage.
ModelCallsInit == ExtractInit \/ ReconcileInit

ModelCallsNext == ExtractNext \/ ReconcileNext

SpecModelCalls == ModelCallsInit /\ [][ModelCallsNext]_vars

\* ---------------------------------------------- the merge on its own

\* Two parsed fragments merged into an empty accumulator, one after the
\* other, by the fragment loop's merge (lines 538-540).
MergeInit ==
    /\ GwIdle /\ ExIdle /\ RcIdle /\ WsIdle /\ EwlIdle /\ SmIdle /\ RunIdle
    /\ RpIdle
    /\ merge_in \in Objects \X Objects
    /\ merge_n = 0

MergeStep ==
    /\ merge_n < Len(merge_in)
    /\ full_extracted_data' =
          MergeFragment(full_extracted_data, [kind |-> "mapping", obj |-> merge_in[merge_n + 1]])
    /\ merge_n' = merge_n + 1
    /\ UNCHANGED <<merge_in, rpVars>>
    /\ UNCHANGED <<ex_pc, file_idx, file_state, handles, uploaded_parts, deleted,
                   frag, retry_count, ex_result, ex_raised, blocked_seen, outcomes,
                   ok_keys, attempted, frag_subs>>
    /\ UNCHANGED <<gwVars, rcVars, wsVars, ewlVars, smVars, runVars>>

MergeNext == MergeStep

SpecMerge == MergeInit /\ [][MergeNext]_vars

\* ------------------------------------------ the JSON step on its own

\* A JSON text is the sequence of its tokens.  A complete string is one
\* token: "a", "b", "c" are the keys used, "s" a string value, "t" what an
\* unterminated string becomes when a quote is put after it.  "u" is an
\* unterminated string at the end of the text: the opening quote and some
\* characters; "q" is a quote character on its own.
StrToks == {"a", "b", "c", "s", "t"}

\* json.dumps of an array and of an object, from the texts of their parts.
DumpsArray1(v) == <<"[">> \o v \o <<"]">>
DumpsArray2(v, w) == <<"[">> \o v \o <<",">> \o w \o <<"]">>
DumpsObject1(k, v) == <<"{", k, ":">> \o v \o <<"}">>
DumpsObject2(k, v, l, w) == <<"{", k, ":">> \o v \o <<",", l, ":">> \o w \o <<"}">>

\* The texts of the values one level deeper than those of V.
Nest(V) ==
    V \cup {DumpsArray1(v) : v \in V}
      \cup {DumpsArray2(v, w) : v \in V, w \in {<<"s">>}}
      \cup {DumpsObject1("c", v) : v \in V}

\* The texts of the values nested MaxDepth deep at most.
RECURSIVE ValuesOfDepth(_)
ValuesOfDepth(d) == IF d = 0 THEN {<<"s">>} ELSE Nest(ValuesOfDepth(d - 1))

\* The serialised JSON objects: one or two keys.
Docs ==
    {DumpsObject1("a", v) : v \in ValuesOfDepth(MaxDepth)}
    \cup {DumpsObject2("a", v, "b", w) : v \in ValuesOfDepth(MaxDepth - 1),
                                          w \in ValuesOfDepth(MaxDepth)}

\* json.loads as a recursive-descent parser: the position after the value
\* that starts at position i of t, 0 when there is none.
RECURSIVE ParseValue(_, _), ParseMembers(_, _), ParseElements(_, _)
ParseValue(t, i) ==
    IF i > Len(t) THEN 0
    ELSE IF t[i] \in StrToks THEN i + 1
    ELSE IF t[i] = "{"
         THEN IF i + 1 <= Len(t) /\ t[i + 1] = "}" THEN i + 2 ELSE ParseMembers(t, i + 1)
    ELSE IF t[i] = "["
         THEN IF i + 1 <= Len(t) /\ t[i + 1] = "]" THEN i + 2 ELSE ParseElements(t, i + 1)
    ELSE 0

ParseMembers(t, i) ==
    IF i + 1 > Len(t) THEN 0
    ELSE IF t[i] \notin StrToks \/ t[i + 1] # ":" THEN 0
    ELSE LET j == ParseValue(t, i + 2) IN
         IF j = 0 \/ j > Len(t) THEN 0
         ELSE IF t[j] = "," THEN ParseMembers(t, j + 1)
         ELSE IF t[j] = "}" THEN j + 1
         ELSE 0

ParseElements(t, i) ==
    LET j == ParseValue(t, i) IN
    IF j = 0 \/ j > Len(t) THEN 0
    ELSE IF t[j] = "," THEN ParseElements(t, j + 1)
    ELSE IF t[j] = "]" THEN j + 1
    ELSE 0

\* json.loads(t) returns: the whole text is one value.
Loads(t) == ParseValue(t, 1) = Len(t) + 1

\* json.loads(t) raises "Unterminated string starting at ...": the text up
\* to its last token is the start of a value and the last token is a string
\* without its closing quote.
Unterminated(t) == t # <<>> /\ t[Len(t)] = "u"

\* The number of containers open at position i of t.
RECURSIVE Depth(_, _)
Depth(t, i) ==
    IF i <= 1 THEN 0
    ELSE Depth(t, i - 1) + (IF t[i - 1] \in {"{", "["} THEN 1 ELSE 0)
                         - (IF t[i - 1] \in {"}", "]"} THEN 1 ELSE 0)

\* The keys of the object t is the text of.
TopKeys(t) ==
    {t[i] : i \in {n \in 1..(Len(t) - 1) : t[n] \in StrToks /\ t[n + 1] = ":" /\ Depth(t, n) = 1}}

\* The text cut after `cut` tokens; `inside` cuts within the string that is
\* the next token, leaving its opening quote and some of its characters.
Truncate(doc, cut, inside) ==
    SubSeq(doc, 1, cut) \o (IF inside THEN <<"u">> ELSE <<>>)

\* patterns = ['"}', '"]}', '"]', '}', '"}}', '"}}}', '"}}}}']
patterns ==
    << <<"q", "}">>, <<"q", "]", "}">>, <<"q", "]">>, <<"}">>,
       <<"q", "}", "}">>, <<"q", "}", "}", "}">>, <<"q", "}", "}", "}", "}">> >>

\* result_text + p: a quote after an unterminated string closes it;
\* anything else after an unterminated string becomes part of it.
Concat(t, p) ==
    IF Unterminated(t)
    THEN IF p[1] = "q" THEN SubSeq(t, 1, Len(t) - 1) \o <<"t">> \o Tail(p) ELSE t
    ELSE t \o p

\* The parsed value is given by the text that parsed; NoData is None.
NoData == <<>>
EmptyDict == <<"{", "}">>

\* section_data = json.loads(result_text), or the except clause: on
\* "Unterminated string" the loop over patterns starts.
RpLoads ==
    /\ rp_pc = "loads"
    /\ IF Loads(result_text)
       THEN /\ section_data' = result_text
            /\ rp_pc' = "batch"
            /\ UNCHANGED rp_p
       ELSE IF Unterminated(result_text)
            THEN /\ rp_pc' = "patterns"
                 /\ rp_p' = 1
                 /\ UNCHANGED section_data
            ELSE /\ rp_pc' = "batch"
                 /\ UNCHANGED <<section_data, rp_p>>
    /\ UNCHANGED <<rp_doc, rp_cut, result_text, batch_result>>

\* for p in patterns: try: section_data = json.loads(result_text + p); break
\*                    except: continue
RpPattern ==
    /\ rp_pc = "patterns"
    /\ IF rp_p > NumPatterns
       THEN /\ rp_pc' = "batch"
            /\ UNCHANGED <<section_data, rp_p>>
       ELSE IF Loads(Concat(result_text, patterns[rp_p]))
            THEN /\ section_data' = Concat(result_text, patterns[rp_p])
                 /\ rp_pc' = "batch"
                 /\ UNCHANGED rp_p
            ELSE /\ rp_p' = rp_p + 1
                 /\ UNCHANGED <<section_data, rp_pc>>
    /\ UNCHANGED <<rp_doc, rp_cut, result_text, batch_result>>

\* A batch step that tries every suffix of the extractor's list.
BatchLoadsAllPatterns(t) ==
    IF Loads(t) THEN t
    ELSE IF Unterminated(t) /\ \E p \in 1..NumPatterns : Loads(Concat(t, patterns[p]))
         THEN Concat(t, patterns[CHOOSE p \in 1..NumPatterns :
                                    /\ Loads(Concat(t, patterns[p]))
                                    /\ \A r \in 1..(p - 1) : ~Loads(Concat(t, patterns[r]))])
    ELSE EmptyDict

\* The reconciler's JSON step on the same text (lines 391-402):
\* batch_result = {}; json.loads(text); on "Unterminated string"
\* json.loads(text + '"}').
BatchLoads(t) ==
    IF Loads(t) THEN t
    ELSE IF Unterminated(t) /\ Loads(Concat(t, patterns[1])) THEN Concat(t, patterns[1])
    ELSE EmptyDict

RpBatch ==
    /\ rp_pc = "batch"
    /\ batch_result' = BatchLoads(result_text)
    /\ rp_pc' = "done"
    /\ UNCHANGED <<rp_doc, rp_cut, result_text, section_data, rp_p>>

\* A serialised object, whole or cut somewhere, inside a string or between
\* two tokens.
RepairInit ==
    /\ GwIdle /\ ExIdle /\ RcIdle /\ WsIdle /\ EwlIdle /\ SmIdle /\ RunIdle
    /\ merge_in = <<>>
    /\ merge_n = 0
    /\ rp_doc \in Docs
    /\ rp_cut \in [at : 0..Len(rp_doc), inside : BOOLEAN]
    /\ rp_cut.inside => rp_cut.at < Len(rp_doc) /\ rp_doc[rp_cut.at + 1] \in StrToks
    /\ result_text = Truncate(rp_doc, rp_cut.at, rp_cut.inside)
    /\ rp_pc = "loads"
    /\ rp_p = 0
    /\ section_data = NoData
    /\ batch_result = EmptyDict

RepairNext ==
    \/ (RpLoads /\ UNCHANGED <<merge_in, merge_n, gwVars, exVars, rcVars, wsVars, ewlVars, smVars, runVars>>)
    \/ (RpPattern /\ UNCHANGED <<merge_in, merge_n, gwVars, exVars, rcVars, wsVars, ewlVars, smVars, runVars>>)
    \/ (RpBatch /\ UNCHANGED <<merge_in, merge_n, gwVars, exVars, rcVars, wsVars, ewlVars, smVars, runVars>>)

SpecRepair == RepairInit /\ [][RepairNext]_vars

\* --------------------------------------------------------- write_to_sheet

\* The blank sentinel of the reconciler's prompt ("（空白）" in the source).
Blank == "(blank)"

\* Schema field names (the keys of a mapping_dict) and their cells.
Fields == {"f1", "f2", "f3"}
CellOf(f) == CASE f = "f1" -> "B2" [] f = "f2" -> "B3" [] OTHER -> "B4"

\* The keys a reconciled record can have: schema fields, and a key that is
\* no field of any schema.
RecordKeys == {"f1", "f2", "x1"}
RecordVals == {"v1", Blank}

InjectiveSeqs(S) ==
    UNION {{q \in [1..n -> S] : \A a, b \in 1..n : q[a] = q[b] => a = b} :
           n \in 0..Cardinality(S)}

\* A mapping_dict: an insertion-ordered dict, field name -> {"cell": ...}.
Schema(names) == [n \in 1..Len(names) |-> [name |-> names[n], cell |-> CellOf(names[n])]]
Schemas == {Schema(q) : q \in InjectiveSeqs(Fields)}

\* An extracted_data: an insertion-ordered dict, key -> value.
Records ==
    UNION {{[n \in 1..Len(q) |-> [key |-> q[n], value |-> v[n]]] :
                v \in [1..Len(q) -> RecordVals]} :
           q \in InjectiveSeqs(RecordKeys)}

\* `item_name in mapping_dict`
InMapping(mapping, k) == \E n \in 1..Len(mapping) : mapping[n].name = k

\* mapping_dict[item_name]["cell"]
CellFor(mapping, k) == mapping[CHOOSE n \in 1..Len(mapping) : mapping[n].name = k].cell

\* A writer that sends every value as it is.
WrittenValueAsIs(v) == v

\* if value == "（空白）": value = ""
WrittenValue(v) == IF v = Blank THEN "" ELSE v

\* A writer that emits a pair for every schema entry.
BuildUpdatesAllFields(mapping, data) ==
    [n \in 1..Len(mapping) |-> [range |-> mapping[n].cell, value |-> ""]]

\* A writer that walks the schema and looks each field up in the record.
BuildUpdatesSchemaOrder(mapping, data) ==
    LET kept == SelectSeq(mapping, LAMBDA m : \E k \in 1..Len(data) : data[k].key = m.name)
    IN [n \in 1..Len(kept) |->
           [range |-> kept[n].cell,
            value |-> WrittenValue(
                data[CHOOSE k \in 1..Len(data) : data[k].key = kept[n].name].value)]]

\* The loop over extracted_data.items() (lines 1257-1270).
BuildUpdates(mapping, data) ==
    LET kept == SelectSeq(data, LAMBDA p : InMapping(mapping, p.key))
    IN [n \in 1..Len(kept) |->
           [range |-> CellFor(mapping, kept[n].key), value |-> WrittenValue(kept[n].value)]]

\* (success, sheet_url, write_count)
Ret(ok, url, n) == [success |-> ok, url |-> url, count |-> n]
UrlOf(id) == <<"url", id>>
NoUrl == <<"url", "">>

\* Entering write_to_sheet(client, id, mapping, data, sheet_name).
WsEnter(caller, id, mapping, data, name) ==
    /\ ws_pc' = "open"
    /\ ws_caller' = caller
    /\ ws_id' = id
    /\ ws_mapping' = mapping
    /\ ws_data' = data
    /\ ws_sheet_name' = name
    /\ worksheet' = ""
    /\ updates' = <<>>
    /\ write_count' = 0
    /\ ws_ret' = Nothing

\* The `except Exception` of write_to_sheet: return False, None, 0
WsFail ==
    /\ ws_ret' = Ret(FALSE, NoUrl, 0)
    /\ ws_pc' = "done"

\* spreadsheet = client.open_by_key(spreadsheet_id); the worksheet named
\* sheet_name, or sheet1 when it is not given or not found.
WsOpen ==
    /\ ws_pc = "open"
    /\ \/ \E found \in BOOLEAN :
            /\ worksheet' = IF ws_sheet_name # "" /\ found THEN ws_sheet_name ELSE "sheet1"
            /\ ws_pc' = "build"
            /\ UNCHANGED ws_ret
       \/ /\ WsFail
          /\ UNCHANGED worksheet
    /\ UNCHANGED <<ws_caller, ws_id, ws_mapping, ws_data, ws_sheet_name, updates,
                   write_count, batch_log>>

\* updates = []; write_count = 0; the loop over extracted_data.items()
WsBuild ==
    /\ ws_pc = "build"
    /\ updates' = BuildUpdates(ws_mapping, ws_data)
    /\ write_count' = Len(BuildUpdates(ws_mapping, ws_data))
    /\ ws_pc' = "send"
    /\ UNCHANGED <<ws_caller, ws_id, ws_mapping, ws_data, ws_sheet_name, worksheet,
                   ws_ret, batch_log>>

\* A writer that sends every pair in a call of its own.
BatchCallsPerPair(upd) == [n \in 1..Len(upd) |-> <<upd[n]>>]

\* The batch_update calls write_to_sheet makes for the list `upd`:
\* `if updates: worksheet.batch_update(updates)`
BatchCalls(upd) == IF upd # <<>> THEN <<upd>> ELSE <<>>

LogCalls(id, sheet, calls, ok) ==
    [n \in 1..Len(calls) |-> [id |-> id, sheet |-> sheet, data |-> calls[n], ok |-> ok]]

\* The batch_update, then st.success and return True, spreadsheet.url,
\* write_count; an exception of batch_update goes to the except clause.
WsSend ==
    /\ ws_pc = "send"
    /\ \/ /\ batch_log' = batch_log \o LogCalls(ws_id, worksheet, BatchCalls(updates), TRUE)
          /\ ws_ret' = Ret(TRUE, UrlOf(ws_id), write_count)
          /\ ws_pc' = "done"
       \/ /\ BatchCalls(updates) # <<>>
          /\ batch_log' = batch_log \o LogCalls(ws_id, worksheet, BatchCalls(updates), FALSE)
          /\ WsFail
    /\ UNCHANGED <<ws_caller, ws_id, ws_mapping, ws_data, ws_sheet_name, worksheet,
                   updates, write_count>>

WsStep == WsOpen \/ WsBuild \/ WsSend

WriteInit ==
    /\ GwIdle /\ ExIdle /\ RcIdle /\ MgIdle /\ EwlIdle /\ SmIdle /\ RunIdle
    /\ ws_pc = "open"
    /\ ws_caller = "none"
    /\ ws_id = "orig"
    /\ ws_mapping \in Schemas
    /\ ws_data \in Records
    /\ ws_sheet_name \in {"", "named"}
    /\ worksheet = ""
    /\ updates = <<>>
    /\ write_count = 0
    /\ ws_ret = Nothing
    /\ batch_log = <<>>

WriteNext ==
    \/ (WsOpen /\ UNCHANGED <<smVars, runVars, gwVars, exVars, rcVars, mgVars, ewlVars>>)
    \/ (WsBuild /\ UNCHANGED <<smVars, runVars, gwVars, exVars, rcVars, mgVars, ewlVars>>)
    \/ (WsSend /\ UNCHANGED <<smVars, runVars, gwVars, exVars, rcVars, mgVars, ewlVars>>)

SpecWrite == WriteInit /\ [][WriteNext]_vars

\* ---------------------------------------- execute_write_logic (PDF mode)

\* The manual inputs written to fixed cells (lines 1137-1175), in the order
\* of the code.
ManualFields ==
    << [key |-> "reception_staff", cell |-> "R13"],
       [key |-> "consultant_name", cell |-> "E14"],
       [key |-> "relationship", cell |-> "K14"],
       [key |-> "relationship_other", cell |-> "N14"],
       [key |-> "reception_method", cell |-> "X13"],
       [key |-> "reception_method_other", cell |-> "AA13"],
       [key |-> "assessment_reason", cell |-> "F15"],
       [key |-> "assessment_reason_remark", cell |-> "L15"],
       [key |-> "location", cell |-> "X15"],
       [key |-> "location_other", cell |-> "AA15"] >>

\* manual_updates for the manual inputs whose value is truthy.
ManualUpdates(truthy) ==
    LET kept == SelectSeq(ManualFields, LAMBDA m : m.key \in truthy)
    IN [n \in 1..Len(kept) |-> [range |-> kept[n].cell, value |-> kept[n].key]]

\* The session states execute_write_logic is run in.
EwlSchemas == {Schema(<<"f1", "f2">>), Schema(<<"f2", "f3", "f1">>)}
EwlRecords ==
    {<<[key |-> "f1", value |-> "v1"]>>,
     <<[key |-> "x1", value |-> "v1"]>>,
     <<[key |-> "f2", value |-> Blank], [key |-> "f1", value |-> "v1"]>>}
EwlSchemas2 == {<<>>, Schema(<<"f3", "f1">>)}
EwlRecords2 == {<<>>, <<[key |-> "f3", value |-> "v1"]>>}
ManualChoices ==
    {{}, {"reception_method"}, {"reception_method", "assessment_reason", "location"}}

Sheet2Name == "sheet2"

\* (success, sheet_url, write_count) of execute_write_logic
EwlReturn(ok, url, n) ==
    /\ ewl_ret' = Ret(ok, url, n)
    /\ ewl_pc' = "done"

\* The service account file is looked up and setup_gspread(service_path)
\* authorises; either can fail: return False, None, 0.
EwlAuth ==
    /\ ewl_pc = "auth"
    /\ \/ /\ target_sheet_id' = spreadsheet_id
          /\ ewl_pc' = "copy"
          /\ UNCHANGED ewl_ret
       \/ /\ EwlReturn(FALSE, NoUrl, 0)
          /\ UNCHANGED target_sheet_id
    /\ UNCHANGED <<spreadsheet_id, enable_template_protection, session, success, ewl_count>>
    /\ UNCHANGED wsVars

\* An execute_write_logic that never copies: it writes to spreadsheet_id.
EwlCopyInPlace ==
    /\ ewl_pc = "copy"
    /\ IF target_sheet_id # ""
       THEN /\ ewl_pc' = IF run_mode \in {"service", "management"} THEN "rows" ELSE "sheet1"
            /\ UNCHANGED <<ewl_ret, target_sheet_id>>
       ELSE /\ EwlReturn(FALSE, NoUrl, 0)
            /\ UNCHANGED target_sheet_id
    /\ UNCHANGED <<spreadsheet_id, enable_template_protection, session, success, ewl_count>>
    /\ UNCHANGED wsVars

\* sheet_type in ["運営会議録", "サービス担当者会議議事録"]: the mode of the
\* run tells; a run of execute_write_logic on its own is a PDF-mode run.
MeetingSheet == run_mode \in {"service", "management"}

\* `if mode == "PDFから転記":` ... `else:` (the audio mode)
WriteBranch == IF MeetingSheet THEN "rows" ELSE "sheet1"

\* if enable_template_protection and sheet_type not in [...]: copy_spreadsheet;
\* then `if target_sheet_id:` (else return False, None, 0).
EwlCopy ==
    /\ ewl_pc = "copy"
    /\ IF enable_template_protection /\ ~MeetingSheet
       THEN \/ /\ target_sheet_id' = "copy"
               /\ ewl_pc' = WriteBranch
               /\ UNCHANGED ewl_ret
            \/ /\ EwlReturn(FALSE, NoUrl, 0)
               /\ UNCHANGED target_sheet_id
       ELSE IF target_sheet_id # ""
            THEN /\ ewl_pc' = WriteBranch
                 /\ UNCHANGED <<ewl_ret, target_sheet_id>>
            ELSE /\ EwlReturn(FALSE, NoUrl, 0)
                 /\ UNCHANGED target_sheet_id
    /\ UNCHANGED <<spreadsheet_id, enable_template_protection, session, success, ewl_count>>
    /\ UNCHANGED wsVars

\* success, sheet_url, write_count = write_to_sheet(client, target_sheet_id,
\*     mapping_dict, extracted_data, sheet_name)
EwlSheet1 ==
    /\ ewl_pc = "sheet1"
    /\ ws_pc = "idle"
    /\ WsEnter("sheet1", target_sheet_id, session.mapping_dict, session.extracted_data, "named")
    /\ UNCHANGED batch_log
    /\ UNCHANGED ewlVars

EwlAfterSheet1 ==
    /\ ewl_pc = "sheet1"
    /\ ws_pc = "done"
    /\ ws_caller = "sheet1"
    /\ success' = ws_ret.success
    /\ ewl_count' = ws_ret.count
    /\ ewl_pc' = "manual"
    /\ UNCHANGED <<spreadsheet_id, enable_template_protection, session, target_sheet_id, ewl_ret>>
    /\ UNCHANGED wsVars

\* if manual_inputs and success: open the worksheet, build manual_updates,
\* `if manual_updates: worksheet.batch_update(manual_updates)`,
\* write_count += len(manual_updates); an exception is a warning.
ManualCallsPerField(truthy, ok1) ==
    IF ok1 THEN [n \in 1..Len(ManualUpdates(truthy)) |-> <<ManualUpdates(truthy)[n]>>]
    ELSE <<>>

ManualCalls(truthy, ok1) ==
    IF ok1 /\ ManualUpdates(truthy) # <<>> THEN <<ManualUpdates(truthy)>> ELSE <<>>

EwlManual ==
    /\ ewl_pc = "manual"
    /\ LET calls == ManualCalls(session.manual, success) IN
       \/ \E found \in BOOLEAN :
            /\ batch_log' = batch_log \o
                  LogCalls(target_sheet_id, IF found THEN "named" ELSE "sheet1", calls, TRUE)
            /\ ewl_count' = ewl_count + (IF calls # <<>> THEN Len(calls[1]) ELSE 0)
       \/ \* open_by_key raised: nothing was sent
          /\ calls # <<>>
          /\ UNCHANGED <<batch_log, ewl_count>>
       \/ \* batch_update raised
          \E found \in BOOLEAN :
            /\ calls # <<>>
            /\ batch_log' = batch_log \o
                  LogCalls(target_sheet_id, IF found THEN "named" ELSE "sheet1", calls, FALSE)
            /\ UNCHANGED ewl_count
    /\ ewl_pc' = "sheet2"
    /\ UNCHANGED <<spreadsheet_id, enable_template_protection, session, target_sheet_id,
                   success, ewl_ret>>
    /\ UNCHANGED <<ws_pc, ws_caller, ws_id, ws_mapping, ws_data, ws_sheet_name, worksheet,
                   updates, write_count, ws_ret>>

\* data_for_sheet2 = session.get('extracted_data2') or session.extracted_data
DataForSheet2 ==
    IF session.extracted_data2 # <<>> THEN session.extracted_data2 ELSE session.extracted_data

\* if st.session_state.mapping2_dict: write_to_sheet(client, target_sheet_id,
\*     mapping2_dict, data_for_sheet2, sheet2_name)
EwlSheet2 ==
    /\ ewl_pc = "sheet2"
    /\ ws_caller # "sheet2"
    /\ session.mapping2_dict # <<>>
    /\ WsEnter("sheet2", target_sheet_id, session.mapping2_dict, DataForSheet2, Sheet2Name)
    /\ UNCHANGED batch_log
    /\ UNCHANGED ewlVars

\* if success2: write_count += write_count2; return success, sheet_url, write_count
EwlAfterSheet2 ==
    /\ ewl_pc = "sheet2"
    /\ ws_pc = "done"
    /\ ws_caller = "sheet2"
    /\ ewl_count' = ewl_count + (IF ws_ret.success THEN ws_ret.count ELSE 0)
    /\ EwlReturn(success, IF success THEN UrlOf(target_sheet_id) ELSE NoUrl,
                 ewl_count + (IF ws_ret.success THEN ws_ret.count ELSE 0))
    /\ UNCHANGED <<spreadsheet_id, enable_template_protection, session, target_sheet_id, success>>
    /\ UNCHANGED wsVars

\* No second mapping: return success, sheet_url, write_count
EwlNoSheet2 ==
    /\ ewl_pc = "sheet2"
    /\ session.mapping2_dict = <<>>
    /\ EwlReturn(success, IF success THEN UrlOf(target_sheet_id) ELSE NoUrl, ewl_count)
    /\ UNCHANGED <<spreadsheet_id, enable_template_protection, session, target_sheet_id,
                   success, ewl_count>>
    /\ UNCHANGED wsVars

EwlInit ==
    /\ GwIdle /\ ExIdle /\ RcIdle /\ MgIdle /\ WsIdle /\ SmIdle /\ RunIdle
    /\ ewl_pc = "auth"
    /\ spreadsheet_id \in {"", "orig"}
    /\ enable_template_protection \in BOOLEAN
    /\ session \in [mapping_dict : EwlSchemas, extracted_data : EwlRecords,
                    mapping2_dict : EwlSchemas2, extracted_data2 : EwlRecords2,
                    manual : ManualChoices]
    /\ target_sheet_id = ""
    /\ success = FALSE
    /\ ewl_count = 0
    /\ ewl_ret = Nothing

EwlNext ==
    \/ (EwlAuth /\ UNCHANGED <<smVars, runVars, gwVars, exVars, rcVars, mgVars>>)
    \/ (EwlCopy /\ UNCHANGED <<smVars, runVars, gwVars, exVars, rcVars, mgVars>>)
    \/ (EwlSheet1 /\ UNCHANGED <<smVars, runVars, gwVars, exVars, rcVars, mgVars>>)
    \/ (WsStep /\ ws_caller \in {"sheet1", "sheet2"}
               /\ UNCHANGED <<smVars, runVars, gwVars, exVars, rcVars, mgVars, ewlVars>>)
    \/ (EwlAfterSheet1 /\ UNCHANGED <<smVars, runVars, gwVars, exVars, rcVars, mgVars>>)
    \/ (EwlManual /\ UNCHANGED <<smVars, runVars, gwVars, exVars, rcVars, mgVars>>)
    \/ (EwlSheet2 /\ UNCHANGED <<smVars, runVars, gwVars, exVars, rcVars, mgVars>>)
    \/ (EwlAfterSheet2 /\ UNCHANGED <<smVars, runVars, gwVars, exVars, rcVars, mgVars>>)
    \/ (EwlNoSheet2 /\ UNCHANGED <<smVars, runVars, gwVars, exVars, rcVars, mgVars>>)

SpecWriteLogic == EwlInit /\ [][EwlNext]_vars

\* ------------------------------------------ the single-call audio stages
\* generate_service_meeting_summary, generate_management_meeting_summary and
\* extract_from_audio_for_assessment: one model call, the JSON step, return.

\* Text values: strings over a three-letter alphabet.  The mandatory phrase
\* is the two-letter string p1 p2, so that a string can hold a part of it.
Alphabet == {"p1", "p2", "x"}
Strings == UNION {[1..n -> Alphabet] : n \in 0..MaxStrLen}

\* mandatory_text, and the "\n・" put before it.
mandatory_text == <<"p1", "p2">>
BulletPrefix == <<"nl">>

\* `t in s` for strings.
Contains(s, t) ==
    \E i \in 0..(Len(s) - Len(t)) : SubSeq(s, i + 1, i + Len(t)) = t

\* The JSON values the "結論" key can have: a string, an array of strings,
\* null.  An array is given by its items, "item" for a string that is not
\* the mandatory phrase and "phrase" for one that is.
ConclusionValues ==
    {[type |-> "str", s |-> q] : q \in Strings}
    \cup {[type |-> "list", s |-> q] : q \in {<<"item">>, <<"item", "phrase">>}}
    \cup {[type |-> "null", s |-> <<>>]}
NoValue == [type |-> "absent", s |-> <<>>]

\* What json.loads can make of the service summarizer's text: an object with
\* or without the "結論" key, a number, an array.
ServiceJson ==
    {[kind |-> "object", has_conclusion |-> TRUE, conclusion |-> c] : c \in ConclusionValues}
    \cup {[kind |-> "object", has_conclusion |-> FALSE, conclusion |-> NoValue]}
    \cup {[kind |-> "number", has_conclusion |-> FALSE, conclusion |-> NoValue]}
    \cup {[kind |-> "array", has_conclusion |-> FALSE, conclusion |-> NoValue]}

SampleJson ==
    [kind |-> "object", has_conclusion |-> TRUE, conclusion |-> [type |-> "str", s |-> <<"x">>]]

\* response.text of the service summarizer's call:
\*   json         the JSON value, bare or inside a ```json fence
\*   plain_fence  the JSON value inside a ``` fence without the json tag
\*   truncated    an unterminated string; with '"}' appended it would parse
\*                to the value
\*   malformed    no JSON
ServiceTexts ==
    {[form |-> "json", value |-> j] : j \in ServiceJson}
    \cup {[form |-> f, value |-> SampleJson] : f \in {"plain_fence", "truncated", "malformed"}}

ServiceResponses ==
    {[kind |-> "response", candidates |-> TRUE, has_text |-> TRUE, text |-> t] : t \in ServiceTexts}
    \cup {[kind |-> "response", candidates |-> TRUE, has_text |-> FALSE,
           text |-> [form |-> "malformed", value |-> SampleJson]]}
    \cup {[kind |-> "response", candidates |-> FALSE, has_text |-> FALSE,
           text |-> [form |-> "malformed", value |-> SampleJson]]}

\* The except clause of generate_management_meeting_summary returns this
\* record: {"agenda": "", "support_24h": "", "sharing_matters": ""}.
Placeholder == [kind |-> "placeholder"]

\* The service summarizer's JSON step (lines 748-754): the text inside a
\* ```json fence, or what precedes a ``` fence, or the text itself, given
\* to json.loads; None stands for json.loads raising.
ServiceLoads(t) ==
    IF t.form = "json" THEN t.value ELSE None

\* A check that takes the key for granted: result_json["結論"] raises
\* KeyError when it is absent.
PostProcessStrict(j) ==
    IF j.kind = "object" /\ j.has_conclusion /\ j.conclusion.type = "str"
    THEN IF Contains(j.conclusion.s, mandatory_text) THEN j
         ELSE [j EXCEPT !.conclusion.s = @ \o BulletPrefix \o mandatory_text]
    ELSE None

\* Lines 757-763: the mandatory-phrase check; None stands for an exception
\* (`in` on a number or on null, `+` of an array and a string).
PostProcess(j) ==
    CASE j.kind = "number" -> None
      [] j.kind = "array" -> j
      [] ~j.has_conclusion -> j
      [] j.conclusion.type = "null" -> None
      [] j.conclusion.type = "list" ->
            IF \E n \in 1..Len(j.conclusion.s) : j.conclusion.s[n] = "phrase"
            THEN j ELSE None
      [] OTHER ->
            IF Contains(j.conclusion.s, mandatory_text) THEN j
            ELSE [j EXCEPT !.conclusion.s = @ \o BulletPrefix \o mandatory_text]

\* What generate_service_meeting_summary returns for the answer a of the
\* model; None is the return value of its except clause.
ServiceResult(a) ==
    IF a.kind = "error" THEN None
    ELSE IF ~a.candidates \/ ~a.has_text THEN None   \* response.text raises
    ELSE IF ServiceLoads(a.text) = None THEN None
    ELSE PostProcess(ServiceLoads(a.text))

\* response = model.generate_content(...): the service summarizer calls the
\* model directly, not through generate_with_retry.
SmServiceCall ==
    /\ sm_pc = "call"
    /\ sm_kind = "service"
    /\ \E a \in ServiceResponses \cup Errors : sm_answer' = a
    /\ sm_pc' = "answered"
    /\ UNCHANGED <<sm_kind, sm_result, sm_reports>>
    /\ UNCHANGED <<gwVars, exVars, rcVars, mgVars, wsVars, ewlVars, runVars>>

\* The rest of the try block, or the except clause: st.error, return None.
SmServiceFinish ==
    /\ sm_pc = "answered"
    /\ sm_kind = "service"
    /\ sm_result' = ServiceResult(sm_answer)
    /\ sm_reports' = IF ServiceResult(sm_answer) = None THEN {"error"} ELSE {}
    /\ sm_pc' = "done"
    /\ UNCHANGED <<sm_kind, sm_answer>>
    /\ UNCHANGED <<gwVars, exVars, rcVars, mgVars, wsVars, ewlVars, runVars>>

\* response = generate_with_retry(model, [audio, prompt])
SmGatewayCall ==
    /\ sm_pc = "call"
    /\ sm_kind \in {"management", "assessment"}
    /\ GwEnter("summary", DefaultRetries)
    /\ sm_pc' = "gateway"
    /\ UNCHANGED <<sm_kind, sm_answer, sm_result, sm_reports>>
    /\ UNCHANGED <<exVars, rcVars, mgVars, wsVars, ewlVars, runVars>>

\* A JSON step with the extractor's repair of an unterminated string.
LoadsValueRepaired(t) ==
    CASE t.kind = "object" -> [kind |-> "record", obj |-> t.obj]
      [] t.kind = "scalar" -> [kind |-> "scalar", obj |-> EmptyObject]
      [] t.kind \in {"pairs", "partial"} -> [kind |-> "list", obj |-> t.obj]
      [] t.kind = "truncated" /\ t.fix \in 1..NumPatterns -> [kind |-> "record", obj |-> t.obj]
      [] OTHER -> None

\* return json.loads(text): whatever JSON value it is; None stands for
\* json.loads raising.
LoadsValue(t) ==
    CASE t.kind = "object" -> [kind |-> "record", obj |-> t.obj]
      [] t.kind = "scalar" -> [kind |-> "scalar", obj |-> EmptyObject]
      [] t.kind \in {"pairs", "partial"} -> [kind |-> "list", obj |-> t.obj]
      [] OTHER -> None

\* The return value of the except clause.
OnFailure(kind) == IF kind = "management" THEN Placeholder ELSE None

\* What the function returns for the outcome a of generate_with_retry.
GatewayResult(kind, a) ==
    IF a.kind = "error" THEN OnFailure(kind)
    ELSE IF ~a.candidates \/ ~a.has_text THEN OnFailure(kind)   \* response.text raises
    ELSE IF LoadsValue(a.text) = None THEN OnFailure(kind)
    ELSE LoadsValue(a.text)

\* Some step of the try block raised: the except clause ran.
GatewayFailed(a) ==
    \/ a.kind = "error"
    \/ ~a.candidates
    \/ ~a.has_text
    \/ LoadsValue(a.text) = None

\* generate_with_retry is over: the rest of the try block, or the except
\* clause with its st.error.
SmOnGateway ==
    /\ sm_pc = "gateway"
    /\ gw_caller = "summary"
    /\ gw_pc \in {"returned", "raised"}
    /\ sm_answer' = gw_out
    /\ sm_result' = GatewayResult(sm_kind, gw_out)
    /\ sm_reports' = IF GatewayFailed(gw_out) THEN {"error"} ELSE {}
    /\ sm_pc' = "done"
    /\ GwReset
    /\ UNCHANGED sm_kind
    /\ UNCHANGED <<exVars, rcVars, mgVars, wsVars, ewlVars, runVars>>

SummaryInit ==
    /\ GwIdle /\ ExIdle /\ RcIdle /\ MgIdle /\ WsIdle /\ EwlIdle /\ RunIdle
    /\ sm_pc = "call"
    /\ sm_kind \in {"service", "management", "assessment"}
    /\ sm_answer = Nothing
    /\ sm_result = Nothing
    /\ sm_reports = {}

SummaryNext ==
    \/ SmServiceCall
    \/ SmServiceFinish
    \/ SmGatewayCall
    \/ (GwStep /\ gw_caller = "summary"
               /\ UNCHANGED <<exVars, rcVars, mgVars, wsVars, ewlVars, smVars, runVars>>)
    \/ SmOnGateway

SpecSummary == SummaryInit /\ [][SummaryNext]_vars

\* ------------------------------------------------------- the main run block

\* st.session_state.extracted_data = {} : the fallback of the service branch.
EmptyRecord == [kind |-> "empty"]

\* Python truth of a stage's return value: None and an empty dict are false.
RecordTruthy(r) == r # None /\ r.obj # EmptyObject

\* What extract_from_pdf can return: None, or the accumulated dict.
ExtractReturns == {None} \cup {Record(o) : o \in Objects}

\* What map_extracted_data_to_schema can return, as the insertion-ordered
\* dict write_to_sheet reads; <<>> is the empty dict.
MappedReturns == {None} \cup {[kind |-> "mapped", items |-> r] : r \in {<<>>} \cup EwlRecords}
MappedTruthy(r) == r # None /\ r.items # <<>>

\* The session a run starts in: the loaded schemas, no data yet; ui_given
\* says whether any of the meeting fields of the form is filled in.
RunSessions ==
    [mapping_dict : {Schema(<<"f1", "f2">>)}, extracted_data : {<<>>},
     mapping2_dict : EwlSchemas2, extracted_data2 : {<<>>},
     manual : {{}, {"reception_method"}}, ui_given : BOOLEAN]

\* pdf_data = extract_from_pdf(...); if pdf_data: raw_extracted_data.update(pdf_data);
\* `if raw_extracted_data:` ... else st.error.
RunExtract ==
    /\ run_pc = "extract"
    /\ \E r \in ExtractReturns :
         LET raw == IF RecordTruthy(r) THEN Update(raw_extracted_data, r.obj)
                    ELSE raw_extracted_data
         IN /\ raw_extracted_data' = raw
            /\ run_pc' = IF raw # EmptyObject THEN "reconcile" ELSE "done"
    /\ run_log' = Append(run_log, "extract")
    /\ UNCHANGED <<run_mode, mapped_extracted_data, summary_data, row_log>>
    /\ UNCHANGED <<gwVars, exVars, rcVars, mgVars, wsVars, ewlVars, smVars>>

\* mapped_extracted_data = map_extracted_data_to_schema(model, raw, mapping_dict);
\* `if mapped_extracted_data:` the session keeps it, else st.error.
RunReconcile ==
    /\ run_pc = "reconcile"
    /\ \E r \in MappedReturns :
         /\ mapped_extracted_data' = r
         /\ IF MappedTruthy(r)
            THEN /\ session' = [session EXCEPT !.extracted_data = r.items]
                 /\ run_pc' = IF session.mapping2_dict # <<>> THEN "reconcile2" ELSE "write"
            ELSE /\ run_pc' = "done"
                 /\ UNCHANGED session
    /\ run_log' = Append(run_log, "reconcile")
    /\ UNCHANGED <<run_mode, raw_extracted_data, summary_data, row_log>>
    /\ UNCHANGED <<ewl_pc, spreadsheet_id, enable_template_protection, target_sheet_id,
                   success, ewl_count, ewl_ret>>
    /\ UNCHANGED <<gwVars, exVars, rcVars, mgVars, wsVars, smVars>>

\* if st.session_state.mapping2_dict: the second reconciliation;
\* `if mapped_extracted_data2:` the session keeps it.
RunReconcile2 ==
    /\ run_pc = "reconcile2"
    /\ \E r \in {None} \cup {[kind |-> "mapped", items |-> q] : q \in EwlRecords2} :
         session' = IF MappedTruthy(r) THEN [session EXCEPT !.extracted_data2 = r.items]
                    ELSE session
    /\ run_pc' = "write"
    /\ run_log' = Append(run_log, "reconcile2")
    /\ UNCHANGED <<run_mode, raw_extracted_data, mapped_extracted_data, summary_data, row_log>>
    /\ UNCHANGED <<ewl_pc, spreadsheet_id, enable_template_protection, target_sheet_id,
                   success, ewl_count, ewl_ret>>
    /\ UNCHANGED <<gwVars, exVars, rcVars, mgVars, wsVars, smVars>>

\* The variables of extract_from_pdf other than the file service's.
exRest == <<ex_pc, file_idx, uploaded_parts, full_extracted_data, frag, retry_count,
            ex_result, ex_raised, blocked_seen, outcomes, ok_keys, attempted, frag_subs>>

\* The audio files of a PDF-mode run (one file): section A of the block.
\* g_file = upload_file_to_gemini_safely(aud_file); `if not g_file: continue`
RunAudioUpload ==
    /\ run_pc = "audio"
    /\ \/ \E st \in {"PROCESSING", "ACTIVE", "FAILED"} :
            /\ handles' = handles \cup {"audio"}
            /\ file_state' = st
            /\ run_pc' = "audio_poll"
       \/ /\ run_pc' = "extract"
          /\ UNCHANGED <<handles, file_state>>
    /\ UNCHANGED <<deleted, exRest>>
    /\ UNCHANGED <<run_mode, raw_extracted_data, mapped_extracted_data, summary_data,
                   run_log, row_log>>
    /\ UNCHANGED <<gwVars, rcVars, mgVars, wsVars, ewlVars, smVars>>

\* while g_file.state.name == "PROCESSING": time.sleep(1); get_file(...)
\* No try encloses the loop: an exception of get_file ends the run.
RunAudioPoll ==
    /\ run_pc = "audio_poll"
    /\ file_state = "PROCESSING"
    /\ \/ /\ file_state' \in {"PROCESSING", "ACTIVE", "FAILED"}
          /\ UNCHANGED <<run_pc, run_log>>
       \/ /\ run_pc' = "done"
          /\ run_log' = Append(run_log, "raised")
          /\ UNCHANGED file_state
    /\ UNCHANGED <<handles, deleted, exRest>>
    /\ UNCHANGED <<run_mode, raw_extracted_data, mapped_extracted_data, summary_data, row_log>>
    /\ UNCHANGED <<gwVars, rcVars, mgVars, wsVars, ewlVars, smVars>>

\* if g_file.state.name == "FAILED": st.error(...); continue
\* otherwise `try: extracted = extract_from_audio_for_assessment(model, g_file)`
RunAudioExtract ==
    /\ run_pc = "audio_poll"
    /\ file_state # "PROCESSING"
    /\ IF file_state = "FAILED"
       THEN /\ run_pc' = "extract"
            /\ UNCHANGED <<sm_pc, sm_kind>>
       ELSE /\ run_pc' = "audio_extract"
            /\ sm_pc' = "call"
            /\ sm_kind' = "assessment"
    /\ UNCHANGED <<sm_answer, sm_result, sm_reports>>
    /\ UNCHANGED <<run_mode, raw_extracted_data, mapped_extracted_data, summary_data,
                   run_log, row_log>>
    /\ UNCHANGED <<gwVars, exVars, rcVars, mgVars, wsVars, ewlVars>>

\* `if extracted: raw_extracted_data.update(extracted)`, then
\* `finally: genai.delete_file(g_file.name)`.  update raises on a value
\* that is no mapping or list of pairs, after inserting the pairs it could;
\* that exception, or one of delete_file, ends the run.  The extractor's
\* frame is gone; the reports it made stay on the page.
RunAudioMerge ==
    /\ run_pc = "audio_extract"
    /\ sm_pc = "done"
    /\ deleted' = deleted \cup {"audio"}
    /\ raw_extracted_data' = IF sm_result = None THEN raw_extracted_data
                             ELSE Update(raw_extracted_data, sm_result.obj)
    /\ \/ run_pc' = "extract" /\ UNCHANGED run_log
       \/ run_pc' = "done" /\ run_log' = Append(run_log, "raised")
    /\ UNCHANGED <<handles, file_state, exRest>>
    /\ UNCHANGED <<run_mode, mapped_extracted_data, summary_data, row_log>>
    /\ sm_pc' = "idle"
    /\ sm_kind' = "none"
    /\ sm_answer' = Nothing
    /\ sm_result' = Nothing
    /\ UNCHANGED sm_reports
    /\ UNCHANGED <<gwVars, rcVars, mgVars, wsVars, ewlVars>>

\* The meeting-record run.
\* audio_file = upload_file_to_gemini_safely(...); `if not audio_file: raise`.
\* A raise goes to the except clause of the block, then to its finally
\* clause.
RunUpload ==
    /\ run_pc = "upload"
    /\ \/ \E st \in {"PROCESSING", "ACTIVE", "FAILED"} :
            /\ handles' = handles \cup {"audio"}
            /\ file_state' = st
            /\ run_pc' = "poll"
            /\ UNCHANGED run_log
       \/ /\ run_pc' = "finally"
          /\ run_log' = Append(run_log, "raised")
          /\ UNCHANGED <<handles, file_state>>
    /\ UNCHANGED <<deleted, exRest>>
    /\ UNCHANGED <<run_mode, raw_extracted_data, mapped_extracted_data, summary_data, row_log>>
    /\ UNCHANGED <<gwVars, rcVars, mgVars, wsVars, ewlVars, smVars>>

\* while audio_file.state.name == "PROCESSING": time.sleep(1); get_file(...)
\* (get_file can raise: the except clause, then the finally clause).
RunPoll ==
    /\ run_pc = "poll"
    /\ file_state = "PROCESSING"
    /\ \/ /\ file_state' \in {"PROCESSING", "ACTIVE", "FAILED"}
          /\ UNCHANGED <<run_pc, run_log>>
       \/ /\ run_pc' = "finally"
          /\ run_log' = Append(run_log, "raised")
          /\ UNCHANGED file_state
    /\ UNCHANGED <<handles, deleted, exRest>>
    /\ UNCHANGED <<run_mode, raw_extracted_data, mapped_extracted_data, summary_data, row_log>>
    /\ UNCHANGED <<gwVars, rcVars, mgVars, wsVars, ewlVars, smVars>>

\* if audio_file.state.name == "FAILED": raise; otherwise the summarizer of
\* the sheet type is called with the audio file.
RunSummarize ==
    /\ run_pc = "poll"
    /\ file_state # "PROCESSING"
    /\ IF file_state = "FAILED"
       THEN /\ run_pc' = "finally"
            /\ run_log' = Append(run_log, "raised")
            /\ UNCHANGED <<sm_pc, sm_kind>>
       ELSE /\ run_pc' = "summary"
            /\ sm_pc' = "call"
            /\ sm_kind' = run_mode
            /\ UNCHANGED run_log
    /\ UNCHANGED <<sm_answer, sm_result, sm_reports>>
    /\ UNCHANGED <<run_mode, raw_extracted_data, mapped_extracted_data, summary_data, row_log>>
    /\ UNCHANGED <<gwVars, exVars, rcVars, mgVars, wsVars, ewlVars>>

\* The summarizer has returned.
\*   service:    `if summary_data:` the session keeps it and the filled-in
\*               form fields are stored into it (a TypeError when it is a
\*               JSON array); else st.error and extracted_data = {}.
\*   management: `if summary_json:` the form fields are stored into it (a
\*               TypeError when it is an array or a number) and the session
\*               keeps it; else st.error and extracted_data = the
\*               placeholder.
\* Then the block goes on to execute_write_logic in either case.
RunAfterSummary ==
    /\ run_pc = "summary"
    /\ sm_pc = "done"
    /\ summary_data' = sm_result
    /\ IF run_mode = "service"
       THEN IF sm_result # None
            THEN IF sm_result.kind = "array" /\ session.ui_given
                 THEN /\ run_pc' = "finally"
                      /\ run_log' = Append(run_log, "raised")
                      /\ UNCHANGED session
                 ELSE /\ session' = [session EXCEPT !.extracted_data = sm_result]
                      /\ run_pc' = "write"
                      /\ UNCHANGED run_log
            ELSE /\ session' = [session EXCEPT !.extracted_data = EmptyRecord]
                 /\ run_pc' = "write"
                 /\ UNCHANGED run_log
       ELSE \/ /\ sm_result = Placeholder \/ (sm_result.kind = "record" /\ RecordTruthy(sm_result))
               /\ session' = [session EXCEPT !.extracted_data = sm_result]
               /\ run_pc' = "write"
               /\ UNCHANGED run_log
            \/ /\ sm_result # Placeholder
               /\ sm_result.kind \in {"list", "scalar"}
               /\ run_pc' = "finally"
               /\ run_log' = Append(run_log, "raised")
               /\ UNCHANGED session
            \/ /\ sm_result # Placeholder
               /\ \/ sm_result.kind = "scalar"
                  \/ (sm_result.kind = "record" /\ ~RecordTruthy(sm_result))
               /\ session' = [session EXCEPT !.extracted_data = Placeholder]
               /\ run_pc' = "write"
               /\ UNCHANGED run_log
    /\ UNCHANGED <<run_mode, raw_extracted_data, mapped_extracted_data, row_log>>
    /\ UNCHANGED <<ewl_pc, spreadsheet_id, enable_template_protection, target_sheet_id,
                   success, ewl_count, ewl_ret>>
    /\ UNCHANGED <<gwVars, exVars, rcVars, mgVars, wsVars, smVars>>

\* success, sheet_url, write_count = execute_write_logic(...)
RunWrite ==
    /\ run_pc = "write"
    /\ ewl_pc = "idle"
    /\ ewl_pc' = "auth"
    /\ run_pc' = "writing"
    /\ run_log' = Append(run_log, "write")
    /\ UNCHANGED <<spreadsheet_id, enable_template_protection, session, target_sheet_id,
                   success, ewl_count, ewl_ret>>
    /\ UNCHANGED <<run_mode, raw_extracted_data, mapped_extracted_data, summary_data, row_log>>
    /\ UNCHANGED <<gwVars, exVars, rcVars, mgVars, wsVars, smVars>>

\* The row one append_row call of the audio branch sends.
RowCall(what, ok) == [id |-> target_sheet_id, fn |-> run_mode, row |-> what, ok |-> ok]

\* The data row stands for the summary, or for the fallback record the run
\* block stored when the summarizer failed.
DataRow == IF session.extracted_data \in {EmptyRecord, Placeholder} THEN "fallback" ELSE "summary"

\* The audio branch of execute_write_logic.
\*   write_service_meeting_to_row: open the sheet; no header row: return
\*     False, None, 0; build the row (data_dict.items() raises on an array);
\*     ws.append_row(row_data); return True, sh.url, 1.
\*   write_management_meeting_to_row: open the sheet; a missing worksheet
\*     or an empty first row gets a header row appended; build the row;
\*     ws.append_row(row_data); return True, sh.url, 1.
\* Any exception: return False, None, 0.
EwlRows ==
    /\ ewl_pc = "rows"
    /\ \/ \* open_by_key or worksheet() raised, or no header row (service)
          /\ EwlReturn(FALSE, NoUrl, 0)
          /\ UNCHANGED row_log
       \/ \* the data row is appended, or append_row raises
          /\ run_mode = "service"
          /\ session.extracted_data = EmptyRecord \/ session.extracted_data.kind # "array"
          /\ \E ok \in BOOLEAN :
               /\ row_log' = Append(row_log, RowCall(DataRow, ok))
               /\ EwlReturn(ok, IF ok THEN UrlOf(target_sheet_id) ELSE NoUrl, IF ok THEN 1 ELSE 0)
       \/ /\ run_mode = "management"
          /\ \E header \in BOOLEAN, ok \in BOOLEAN :
               /\ row_log' = row_log
                     \o (IF header THEN <<RowCall("header", TRUE)>> ELSE <<>>)
                     \o <<RowCall(DataRow, ok)>>
               /\ EwlReturn(ok, IF ok THEN UrlOf(target_sheet_id) ELSE NoUrl, IF ok THEN 1 ELSE 0)
       \/ \* the header row's append_row raised
          /\ run_mode = "management"
          /\ row_log' = Append(row_log, RowCall("header", FALSE))
          /\ EwlReturn(FALSE, NoUrl, 0)
    /\ UNCHANGED <<spreadsheet_id, enable_template_protection, session, target_sheet_id,
                   success, ewl_count>>
    /\ UNCHANGED <<run_pc, run_mode, raw_extracted_data, mapped_extracted_data, summary_data,
                   run_log>>
    /\ UNCHANGED <<gwVars, exVars, rcVars, mgVars, wsVars, smVars>>

\* execute_write_logic has returned: the PDF run is over, the meeting run
\* goes to its finally clause.
RunFinish ==
    /\ run_pc = "writing"
    /\ ewl_pc = "done"
    /\ run_pc' = IF MeetingSheet THEN "finally" ELSE "done"
    /\ UNCHANGED <<run_mode, raw_extracted_data, mapped_extracted_data, summary_data,
                   run_log, row_log>>
    /\ UNCHANGED <<gwVars, exVars, rcVars, mgVars, wsVars, ewlVars, smVars>>

\* finally: if audio_file: try: genai.delete_file(audio_file.name)
RunFinally ==
    /\ run_pc = "finally"
    /\ deleted' = deleted \cup handles
    /\ run_pc' = "done"
    /\ UNCHANGED <<handles, file_state, exRest>>
    /\ UNCHANGED <<run_mode, raw_extracted_data, mapped_extracted_data, summary_data,
                   run_log, row_log>>
    /\ UNCHANGED <<gwVars, rcVars, mgVars, wsVars, ewlVars, smVars>>

\* The button is pressed with the session in one of `sessions`.
RunStartsIn(sessions) ==
    /\ GwIdle /\ ExIdle /\ RcIdle /\ MgIdle /\ WsIdle /\ SmIdle
    /\ run_mode \in {"pdf", "service", "management"}
    /\ run_pc \in IF run_mode = "pdf" THEN {"audio", "extract"} ELSE {"upload"}
    /\ raw_extracted_data = EmptyObject
    /\ mapped_extracted_data = Nothing
    /\ summary_data = Nothing
    /\ run_log = <<>>
    /\ row_log = <<>>
    /\ ewl_pc = "idle"
    /\ spreadsheet_id \in {"", "orig"}
    /\ enable_template_protection \in BOOLEAN
    /\ session \in sessions
    /\ target_sheet_id = ""
    /\ success = FALSE
    /\ ewl_count = 0
    /\ ewl_ret = Nothing

\* The first run of a session.
RunInit == RunStartsIn(RunSessions)

\* What an earlier PDF run of the same session has left in
\* st.session_state.extracted_data and extracted_data2; the value "old"
\* marks what that run produced.
StaleRecord == <<[key |-> "f1", value |-> "old"]>>
StaleRecord2 == <<[key |-> "f3", value |-> "old"]>>

\* A later run of the session: st.session_state is kept between runs,
\* nothing resets extracted_data or extracted_data2 when the button is pressed.
SecondRunInit ==
    RunStartsIn({[s EXCEPT !.extracted_data = StaleRecord, !.extracted_data2 = StaleRecord2] :
                    s \in RunSessions})

RunNext ==
    \/ RunAudioUpload
    \/ RunAudioPoll
    \/ RunAudioExtract
    \/ RunAudioMerge
    \/ RunExtract
    \/ RunReconcile
    \/ RunReconcile2
    \/ RunUpload
    \/ RunPoll
    \/ RunSummarize
    \/ SummaryNext
    \/ RunAfterSummary
    \/ RunWrite
    \/ EwlNext
    \/ EwlRows
    \/ RunFinish
    \/ RunFinally

SpecRun == RunInit /\ [][RunNext]_vars

SpecSecondRun == SecondRunInit /\ [][RunNext]_vars

\* ----------------------------------------------------------------- specs

GatewayInit == GwInit /\ ExIdle /\ RcIdle /\ OthersIdle

GatewayNext ==
    \/ (GwCallReturns /\ UNCHANGED <<exVars, rcVars, others>>)
    \/ (GwCallRaises /\ UNCHANGED <<exVars, rcVars, others>>)
    \/ (GwFallsThrough /\ UNCHANGED <<exVars, rcVars, others>>)

SpecGateway == GatewayInit /\ [][GatewayNext]_vars


\* ============================================================ properties

IsError(x) == x.kind = "error"
HasRateLimitMarker(x) == IsError(x) /\ x.markers \cap Markers # {}

\* C1: every file extract_from_pdf has uploaded to the model service has had
\* a delete issued for its handle when extract_from_pdf is over, whatever
\* the exit path.
C1_EveryUploadDeleted ==
    ex_pc = "done" => handles \subseteq deleted

\* C2: generate_with_retry(retries = n), n >= 1, makes at most n calls; while
\* the loop runs after a call, that call failed with a rate-limit error and
\* was followed by a sleep; it returns the response of the one call that
\* succeeded, all earlier ones having been slept after; it raises the error
\* of the last call with no sleep after it, and a rate-limit error is raised
\* only by the n-th call.
C2_RetryContract ==
    retries >= 1 =>
        /\ gw_calls <= retries
        /\ (gw_pc = "running" /\ gw_calls > 0 =>
                HasRateLimitMarker(gw_last) /\ gw_sleeps = gw_calls)
        /\ (gw_pc = "returned" =>
                gw_out.kind = "response" /\ gw_calls >= 1 /\ gw_sleeps = gw_calls - 1)
        /\ (gw_pc = "raised" =>
                /\ IsError(gw_out)
                /\ gw_sleeps = gw_calls - 1
                /\ (HasRateLimitMarker(gw_out) => gw_calls = retries))

\* The n-th call of generate_with_retry(retries = 3) failed with a rate-limit
\* error after two sleeps, and the error was raised.
C2_Witness ==
    /\ gw_caller = "none"
    /\ gw_pc = "raised"
    /\ retries = 3
    /\ gw_calls = 3
    /\ gw_sleeps = 2
    /\ HasRateLimitMarker(gw_out)

\* A step that calls model.generate_content.
ModelCallStep == gw_calls' = gw_calls + 1

\* The prompt about to be submitted has already had a blocked response.
PromptWasBlocked ==
    \/ gw_caller = "extract" /\ blocked_seen
    \/ gw_caller = "reconcile" /\ rc_blocked = BatchNum(batch_i)

C4_PartialSuccess ==
    ex_pc = "done" /\ ex_raised = "" =>
        /\ attempted = [n \in 1..NumFragments |-> n]
        /\ ex_result.kind = "record"
        /\ DOMAIN ex_result.obj = ok_keys

\* C5: after R1 then R2 were merged into the empty accumulator, the
\* accumulator has the keys of R1 and R2 and no other; a key of R2 has R2's
\* value, a key of R1 alone has R1's value.
C5_LastWriteWins ==
    merge_n = 2 =>
        LET R1 == merge_in[1]
            R2 == merge_in[2]
        IN /\ DOMAIN full_extracted_data = (DOMAIN R1) \cup (DOMAIN R2)
           /\ \A k \in DOMAIN R2 : full_extracted_data[k] = R2[k]
           /\ \A k \in (DOMAIN R1) \ (DOMAIN R2) : full_extracted_data[k] = R1[k]

\* R1 and R2 disagree on a shared key, and R1 has a key R2 lacks.
C5_Witness ==
    /\ merge_n = 2
    /\ "k1" \in (DOMAIN merge_in[1]) \cap (DOMAIN merge_in[2])
    /\ merge_in[1]["k1"] # merge_in[2]["k1"]
    /\ "k2" \in (DOMAIN merge_in[1]) \ (DOMAIN merge_in[2])
    /\ full_extracted_data["k1"] = "v2"

\* A fragment's processing is about to end in failure: the gateway raised,
\* or the response is blocked, has no text, does not parse, or parses to a
\* value the merge raises on.
FragmentFailing ==
    /\ ex_pc = "gateway"
    /\ gw_pc \in {"returned", "raised"}
    /\ \/ IsError(gw_out)
       \/ ~gw_out.candidates
       \/ ~gw_out.has_text
       \/ gw_out.text.kind \in {"malformed", "scalar", "partial"}
       \/ gw_out.text.kind = "truncated" /\ gw_out.text.fix = 0

\* C6: no step of extract_from_pdf removes a key from the accumulator, and a
\* failing fragment leaves the accumulator as it was.
C6_AccumulatorGrows ==
    [][
        /\ DOMAIN full_extracted_data \subseteq DOMAIN full_extracted_data'
        /\ (FragmentFailing => full_extracted_data' = full_extracted_data)
    ]_vars

\* C7: extract_from_pdf returns None exactly when an exception escaped to
\* the outer handler (schema loading, upload, polling); otherwise it returns
\* the accumulator, also when no fragment was merged.
C7_NoneOnlyOnPipelineException ==
    ex_pc = "done" =>
        /\ (ex_result = None <=> ex_raised \in {"schemas", "upload", "poll"})
        /\ (ex_raised = "" => ex_result = Record(full_extracted_data))
        /\ (ex_result = None => outcomes = {} /\ attempted = <<>>)

\* Every fragment failed and the empty mapping was returned.
C7_Witness ==
    /\ ex_pc = "done"
    /\ ex_raised = ""
    /\ outcomes = {"blocked", "raised", "unparseable"}
    /\ ex_result = Record(EmptyObject)

\* C8: an invocation of write_to_sheet makes at most one batch_update call,
\* that call carries the whole write batch, and a successful invocation with
\* a non-empty batch has made it.
C8_AtMostOneBatchUpdate ==
    /\ Len(batch_log) <= 1
    /\ (Len(batch_log) = 1 => batch_log[1].data = updates /\ updates # <<>>)
    /\ (ws_pc = "done" /\ ws_ret.success /\ updates # <<>> => Len(batch_log) = 1)

\* A record with three keys, two of them schema fields, was written in one
\* call of two pairs.
C8_Witness ==
    /\ ws_pc = "done"
    /\ ws_ret.success
    /\ Len(ws_data) = 3
    /\ Len(batch_log) = 1
    /\ Len(batch_log[1].data) = 2

\* The field names that are keys of both the schema and the record.
InBoth == {f \in Fields \cup RecordKeys :
             /\ \E n \in 1..Len(ws_mapping) : ws_mapping[n].name = f
             /\ \E n \in 1..Len(ws_data) : ws_data[n].key = f}

PairsFor(f) ==
    {n \in 1..Len(updates) :
        \E m \in 1..Len(ws_mapping) :
            ws_mapping[m].name = f /\ updates[n].range = ws_mapping[m].cell}

\* C10: once the write batch is built (the spreadsheet was opened and the
\* loop over the record is over) it has exactly one pair for every name
\* that is a key of both the schema and the record, at that entry's cell,
\* and no other pair; write_count, and the count returned on success, is the
\* number of pairs.
C10_BatchIsIntersection ==
    ws_pc = "send" \/ (ws_pc = "done" /\ worksheet # "") =>
        /\ \A f \in InBoth : Cardinality(PairsFor(f)) = 1
        /\ Len(updates) = Cardinality(InBoth)
        /\ write_count = Len(updates)
        /\ (ws_pc = "done" /\ ws_ret.success => ws_ret.count = Len(updates))

\* The record has a key that is no schema field and was ignored, and a
\* schema field has no record key.
C10_Witness ==
    /\ ws_pc = "done"
    /\ ws_ret.success
    /\ \E n \in 1..Len(ws_data) : ws_data[n].key = "x1"
    /\ Len(ws_mapping) = 3
    /\ ws_ret.count = 1

\* The record and the first schema have a key in common.
SharesKey(mapping, data) ==
    \E m \in 1..Len(mapping), n \in 1..Len(data) : mapping[m].name = data[n].key

\* C9 as stated: a PDF run whose record is non-empty and no larger than the
\* schema makes exactly one batch_update call.
C9_ExactlyOneWrite ==
    /\ ewl_pc = "done"
    /\ session.extracted_data # <<>>
    /\ Len(session.extracted_data) <= Len(session.mapping_dict)
    => Len(batch_log) = 1

\* C9 as the code has it: a PDF run makes at most one call for sheet 1 (none
\* when the record has no key of the schema), at most one for the manual
\* inputs (none when no manual input is truthy), at most one for sheet 2
\* (none without a second schema), hence at most three; it makes exactly
\* one when sheet 1 was written with a key of the schema, no manual input
\* is truthy and there is no second schema.
C9_WritesPerRun ==
    ewl_pc = "done" =>
        LET n1 == IF SharesKey(session.mapping_dict, session.extracted_data) THEN 1 ELSE 0
            nm == IF session.manual # {} THEN 1 ELSE 0
            n2 == IF session.mapping2_dict # <<>> THEN 1 ELSE 0
        IN /\ Len(batch_log) <= n1 + nm + n2
           /\ Len(batch_log) <= 3
           /\ (ewl_ret.success /\ nm = 0 /\ n2 = 0 => Len(batch_log) = n1)
           /\ (~ewl_ret.success => Len(batch_log) <= n1 + n2)

\* A run that made three calls: sheet 1, the manual inputs, sheet 2.
C9_Witness ==
    /\ ewl_pc = "done"
    /\ ewl_ret.success
    /\ Len(batch_log) = 3
    /\ Len(session.extracted_data) <= Len(session.mapping_dict)

\* The write batch is built: the spreadsheet was opened and the loop over
\* the record is over.
BatchBuilt == ws_pc = "send" \/ (ws_pc = "done" /\ worksheet # "")

\* C11: in the write batch, and in the batch_update call that carries it,
\* no value is the blank sentinel; the pair of a record entry whose value is
\* the sentinel has the empty string, the pair of any other entry has the
\* entry's value.
C11_BlankWrittenEmpty ==
    BatchBuilt =>
        /\ \A n \in 1..Len(updates) : updates[n].value # Blank
        /\ \A c \in 1..Len(batch_log) : \A n \in 1..Len(batch_log[c].data) :
               batch_log[c].data[n].value # Blank
        /\ \A p \in 1..Len(ws_data), m \in 1..Len(ws_mapping) :
               ws_data[p].key = ws_mapping[m].name =>
                   \E n \in 1..Len(updates) :
                       /\ updates[n].range = ws_mapping[m].cell
                       /\ updates[n].value =
                              IF ws_data[p].value = Blank THEN "" ELSE ws_data[p].value

\* A record with a sentinel value and another value, both for schema
\* fields, was sent: one pair has the empty string, the other the value.
C11_Witness ==
    /\ ws_pc = "done"
    /\ ws_ret.success
    /\ \E p \in 1..Len(ws_data) : ws_data[p].value = Blank
    /\ Len(batch_log) = 1
    /\ {batch_log[1].data[n].value : n \in 1..Len(batch_log[1].data)} = {"", "v1"}

\* The batches issued so far are consecutive slices of the descriptor list,
\* starting at its first field, of at most BATCH_SIZE fields each.
ConsecutiveBatches ==
    /\ \A n \in 1..Len(rc_batches) :
          /\ rc_batches[n].lo <= rc_batches[n].hi
          /\ rc_batches[n].hi - rc_batches[n].lo + 1 <= BATCH_SIZE
          /\ rc_batches[n].lo = IF n = 1 THEN 1 ELSE rc_batches[n - 1].hi + 1

\* The batches cover the N fields in ceil(N / BATCH_SIZE) slices.
IsPartition ==
    /\ Len(rc_batches) = (total_items + BATCH_SIZE - 1) \div BATCH_SIZE
    /\ ConsecutiveBatches
    /\ rc_batches[Len(rc_batches)].hi = total_items

C13_KeysWithinSchema ==
    rc_pc = "done" /\ total_items >= 1 /\ rc_batches # <<>> =>
        DOMAIN rc_result.obj \subseteq SchemaFieldNames(total_items)

\* A batch's processing is about to end in failure: the gateway raised, or
\* the response is blocked, has no text, does not parse (also after the one
\* repair), or parses to a value the merge raises on.
BatchFailing ==
    /\ rc_pc = "gateway"
    /\ gw_pc \in {"returned", "raised"}
    /\ \/ IsError(gw_out)
       \/ ~gw_out.candidates
       \/ ~gw_out.has_text
       \/ gw_out.text.kind \in {"malformed", "scalar", "partial"}
       \/ gw_out.text.kind = "truncated" /\ gw_out.text.fix # 1

\* C14: a failing batch is skipped -- the loop goes on with the next slice
\* and the failing batch adds nothing to the merged record -- and no batch
\* removes a key merged before it, so that the returned record is the merge
\* of the batches that succeeded.
C14_BatchFailuresIsolated ==
    [][
        /\ DOMAIN mapped_results \subseteq DOMAIN mapped_results'
        /\ (BatchFailing =>
               /\ mapped_results' = mapped_results
               /\ batch_i' = batch_i + BATCH_SIZE
               /\ rc_pc' = "batch")
    ]_vars

\* The service summarizer has returned, and its call's text parsed to the
\* JSON value sm_answer.text.value.
ServiceParsed ==
    /\ sm_pc = "done"
    /\ sm_kind = "service"
    /\ sm_answer.kind = "response"
    /\ sm_answer.candidates
    /\ sm_answer.has_text
    /\ sm_answer.text.form = "json"

\* The "結論" value holds the mandatory phrase.
HasPhrase(c) ==
    \/ c.type = "str" /\ Contains(c.s, mandatory_text)
    \/ c.type = "list" /\ \E n \in 1..Len(c.s) : c.s[n] = "phrase"

\* C15: when the summarizer's JSON is an object with a "結論" value, the
\* returned record is that object with, for a value that lacks the
\* mandatory phrase, a "結論" that starts with the original value and holds
\* the phrase; a value that has the phrase is returned unchanged.
C15_MandatoryPhraseAppended ==
    ServiceParsed /\ sm_answer.text.value.kind = "object"
                  /\ sm_answer.text.value.has_conclusion =>
        LET j == sm_answer.text.value IN
        IF HasPhrase(j.conclusion)
        THEN sm_result = j
        ELSE /\ sm_result # None
             /\ sm_result.kind = "object"
             /\ sm_result.has_conclusion
             /\ HasPhrase(sm_result.conclusion)
             /\ Len(sm_result.conclusion.s) >= Len(j.conclusion.s)
             /\ SubSeq(sm_result.conclusion.s, 1, Len(j.conclusion.s)) = j.conclusion.s

\* C16: when the summarizer's JSON is an object without the "結論" key, the
\* summarizer returns that object, still without the key, and reports no
\* error.
C16_AbsentConclusion ==
    ServiceParsed /\ sm_answer.text.value.kind = "object"
                  /\ ~sm_answer.text.value.has_conclusion =>
        /\ sm_result = sm_answer.text.value
        /\ ~sm_result.has_conclusion
        /\ sm_reports = {}

\* The summarizer returned an object that has no "結論" key.
C16_Witness ==
    /\ ServiceParsed
    /\ sm_result # None
    /\ sm_result.kind = "object"
    /\ ~sm_result.has_conclusion

\* A summarizer has returned, and the text of its call was no JSON: it is
\* malformed, or an unterminated string, or (service summarizer) what
\* precedes a fence without the json tag.
TextUnparseable ==
    /\ sm_pc = "done"
    /\ sm_answer.kind = "response"
    /\ sm_answer.candidates
    /\ sm_answer.has_text
    /\ IF sm_kind = "service"
       THEN sm_answer.text.form \in {"plain_fence", "truncated", "malformed"}
       ELSE sm_answer.text.kind \in {"truncated", "malformed"}

\* C17 as stated: a meeting summarizer whose text was no JSON returns None.
C17_ParseFailureReturnsNone ==
    TextUnparseable /\ sm_kind \in {"service", "management"} => sm_result = None

\* C17 as the code has it: the service summarizer returns None, the
\* management summarizer returns its record of empty strings; both report
\* the failure, and an unterminated string that one closing suffix would
\* repair is a failure like any other.
C17_ParseFailureResult ==
    TextUnparseable /\ sm_kind \in {"service", "management"} =>
        /\ sm_result = IF sm_kind = "service" THEN None ELSE Placeholder
        /\ sm_reports = {"error"}

\* The management summarizer got an unterminated string that the one suffix
\* would repair, and returned its record of empty strings.
C17_Witness ==
    /\ TextUnparseable
    /\ sm_kind = "management"
    /\ sm_answer.text.kind = "truncated"
    /\ sm_answer.text.fix = 1
    /\ sm_result = Placeholder

\* C18: where a single-call audio stage gets a response without candidates,
\* it reports a warning and no error.
C18_BlockedIsSoftWarning ==
    /\ sm_pc = "done"
    /\ sm_answer.kind = "response"
    /\ ~sm_answer.candidates
    => sm_reports = {"warning"}

\* generate_with_retry has used up its calls on rate-limit errors and raised
\* the last one to the fragment loop or to the batch loop.
RateLimitExhausted ==
    /\ gw_pc = "raised"
    /\ gw_caller \in {"extract", "reconcile"}
    /\ HasRateLimitMarker(gw_out)

\* C19 as stated: the step that handles an exhausted rate-limit error ends
\* the stage; no further fragment or batch is processed.
C19_RateLimitIsFatal ==
    [][
        RateLimitExhausted =>
            /\ (gw_caller = "extract" => ex_pc' \in {"finally", "done"})
            /\ (gw_caller = "reconcile" => rc_pc' = "done")
    ]_vars

\* C19 as the code has it: the gateway makes at most DefaultRetries calls
\* per invocation; an exhausted rate-limit error leaves both accumulators
\* untouched and the loops running: the fragment is submitted again while
\* fewer than max_retries submissions were made and given up after that,
\* the batch is given up at once.
C19_RateLimitSkipsUnit ==
    [][
        /\ (gw_caller' \in {"extract", "reconcile"} => gw_calls' <= DefaultRetries)
        /\ (RateLimitExhausted =>
               /\ gw_calls = DefaultRetries
               /\ full_extracted_data' = full_extracted_data
               /\ mapped_results' = mapped_results
               /\ (gw_caller = "extract" =>
                      /\ ex_pc' = "fragment"
                      /\ frag' = IF retry_count + 1 < max_retries THEN frag ELSE frag + 1)
               /\ (gw_caller = "reconcile" =>
                      /\ rc_pc' = "batch"
                      /\ batch_i' = batch_i + BATCH_SIZE))
    ]_vars

\* The fifth submission of a fragment ended, like the four before it, in an
\* exhausted rate-limit error.
C19_Witness ==
    /\ RateLimitExhausted
    /\ gw_caller = "extract"
    /\ gw_calls = DefaultRetries
    /\ retry_count = max_retries - 1
    /\ outcomes = {}


\* The stage was called: its name is in the log of the run.
Called(stage) == \E n \in 1..Len(run_log) : run_log[n] = stage

\* A sheet write was issued: a batch_update or an append_row.
SheetWriteIssued == batch_log # <<>> \/ row_log # <<>>

\* The extraction stage of a PDF run gave None or an empty record.
NoExtractedRecord ==
    run_mode = "pdf" /\ Called("extract") /\ raw_extracted_data = EmptyObject

\* The reconciliation stage gave None or an empty record.
NoMappedRecord == Called("reconcile") /\ ~MappedTruthy(mapped_extracted_data)

\* The summarizer of an audio run failed: its except clause ran.
NoSummary == MeetingSheet /\ sm_pc = "done" /\ sm_reports = {"error"}

\* C20: when a record-producing stage of a run yields no record, the later
\* stages are not run: after an extraction that gave None or an empty record
\* no reconciliation call and no sheet write is issued; after a
\* reconciliation that gave None or an empty record no sheet write is
\* issued; after an audio summarizer that failed no sheet write
\* (batch_update or append_row) is issued.
C20_NoRecordNoLaterStage ==
    /\ NoExtractedRecord => ~Called("reconcile") /\ ~SheetWriteIssued
    /\ NoMappedRecord => ~SheetWriteIssued
    /\ NoSummary => ~SheetWriteIssued

\* The step that submits a fragment's prompt: prompt_parts is the fragment's
\* text followed by uploaded_parts.
FragmentSubmitted == ex_pc = "fragment" /\ ex_pc' = "gateway"

\* The step that leaves the polling of a file whose state is FAILED.
FailedFileLeft == ex_pc = "poll" /\ file_state = "FAILED" /\ ex_pc' # "poll"

\* C21: a file whose ingestion ends FAILED is left out of uploaded_parts (so
\* of every prompt) and the upload loop goes on with the next file; a
\* fragment's prompt is submitted only when at least one file is usable.
C21_FailedFileExcluded ==
    [][/\ FailedFileLeft =>
            /\ uploaded_parts' = uploaded_parts
            /\ ex_pc' = "upload"
            /\ file_idx' = file_idx + 1
       /\ FragmentSubmitted => uploaded_parts # <<>>]_vars

\* The values the batch_update calls of this run have carried.
WrittenValues ==
    UNION {{batch_log[n].data[k].value : k \in DOMAIN batch_log[n].data} :
           n \in DOMAIN batch_log}

\* C22: a run writes only records it has produced itself: no value an
\* earlier run of the session left in extracted_data or extracted_data2 is
\* sent to a sheet by a later run.
C22_NoStaleRecordWritten == "old" \notin WrittenValues

\* The keys of rp_doc that are complete, colon included, before the cut.
KeysBeforeCut == TopKeys(SubSeq(rp_doc, 1, rp_cut.at))

\* The fragment's JSON step is over.
FragmentParsed == rp_pc \in {"batch", "done"}

\* The text was cut inside a string that is a value, not a key: in rp_doc
\* no colon follows that string.
CutInsideValue ==
    /\ rp_cut.inside
    /\ rp_doc[rp_cut.at + 2] # ":"

\* C23: a serialised object cut inside a string value and given to the
\* extractor's parse-with-repair (straight parse, then the suffixes in
\* order, the first that parses) comes back as an object that has every key
\* that was complete before the cut.
C23_RepairRoundTrip ==
    (FragmentParsed /\ CutInsideValue) =>
        /\ section_data # NoData
        /\ KeysBeforeCut \subseteq TopKeys(section_data)

\* The batch's JSON step recovered the text.
BatchRecovered == batch_result # EmptyDict

\* C24 (as stated): a text is recovered as a batch response exactly when it
\* is recovered as a fragment, and to the same object.
C24_SameRepair ==
    rp_pc = "done" =>
        /\ BatchRecovered <=> section_data # NoData
        /\ section_data # NoData => batch_result = section_data

\* C24 (amended): the reconciler tries only the first suffix of the
\* extractor's list.  A text is recovered as a batch response exactly when
\* the extractor recovers it by the straight parse or by the first suffix,
\* and then both give the same object; a text that needs a later suffix is
\* recovered as a fragment only.
C24_FirstSuffixOnly ==
    rp_pc = "done" =>
        /\ BatchRecovered <=> (section_data # NoData /\ rp_p <= 1)
        /\ BatchRecovered => batch_result = section_data

C24_Witness ==
    /\ rp_pc = "done"
    /\ rp_p = 1
    /\ BatchRecovered
    /\ batch_result = section_data
    /\ rp_cut.inside

\* The spreadsheet ids the writes of the run were issued against:
\* batch_update calls and append_row calls.
WrittenIds ==
    {batch_log[n].id : n \in DOMAIN batch_log} \cup {row_log[n].id : n \in DOMAIN row_log}

C26_AudioHandleDeleted ==
    run_pc = "done" => handles \subseteq deleted

\* C27: a handle gets into uploaded_parts (the attachments of every prompt)
\* only in the step that has seen its state be neither PROCESSING nor FAILED,
\* and before any fragment is submitted; once a fragment is submitted
\* uploaded_parts does not change any more.
C27_OnlyReadyFilesAttached ==
    [][/\ uploaded_parts' # uploaded_parts =>
            /\ ex_pc = "poll"
            /\ file_state \notin {"PROCESSING", "FAILED", ""}
            /\ uploaded_parts' = Append(uploaded_parts, file_idx)
            /\ attempted = <<>>
       /\ FragmentSubmitted =>
            /\ file_idx > NumFiles
            /\ uploaded_parts' = uploaded_parts]_vars

\* A fragment's prompt is out with the second file attached and the first,
\* whose ingestion failed, left out.
C27_Witness ==
    /\ ex_pc = "gateway"
    /\ uploaded_parts = <<2>>
    /\ handles = {1, 2}

\* A poll has seen PROCESSING: the step of the polling loop that leaves the
\* file's state as it is.
PollSeesProcessing == ex_pc = "poll" /\ file_state = "PROCESSING"

\* C28: with every file leaving PROCESSING in the end and every call
\* returning or raising in the end, extract_from_pdf returns.  The polling
\* loop itself has no bound: as long as the state read is PROCESSING the
\* function stays in the loop (only another state or an exception of
\* get_file ends it), and no fragment is submitted before the upload loop
\* is over.
C28_ExtractionTerminates ==
    /\ <>(ex_pc = "done")
    /\ [][(PollSeesProcessing /\ file_state' = "PROCESSING" /\ ex_raised' = ex_raised)
            => (ex_pc' = "poll" /\ attempted' = <<>> /\ file_idx' = file_idx)]_vars
    /\ [](ex_pc \in {"upload", "poll"} /\ file_idx <= NumFiles => attempted = <<>>)

\* The function has returned after every fragment was submitted with a file
\* attached.
C28_Witness ==
    /\ ex_pc = "done"
    /\ ex_result # None
    /\ Len(attempted) = NumFragments
    /\ uploaded_parts # <<>>

\* The position in `updates` of the pair for a cell.
PairPos(cell) == CHOOSE n \in 1..Len(updates) : updates[n].range = cell

\* `k in extracted_data`
InData(data, k) == \E n \in 1..Len(data) : data[n].key = k

\* C29 (as stated): the pairs of the batch are in schema field order: for
\* schema fields f before g that are both keys of the record, f's pair is
\* before g's pair.
C29_SchemaOrder ==
    BatchBuilt =>
        \A i, j \in 1..Len(ws_mapping) :
            (i < j /\ InData(ws_data, ws_mapping[i].name) /\ InData(ws_data, ws_mapping[j].name))
                => PairPos(ws_mapping[i].cell) < PairPos(ws_mapping[j].cell)

\* C29 (amended): the pairs of the batch are in the key order of the
\* reconciled record: for keys f before g of the record that are both schema
\* fields, f's pair is before g's pair, whatever the order of the schema.
C29_RecordOrder ==
    BatchBuilt =>
        \A i, j \in 1..Len(ws_data) :
            (i < j /\ InMapping(ws_mapping, ws_data[i].key) /\ InMapping(ws_mapping, ws_data[j].key))
                => PairPos(CellFor(ws_mapping, ws_data[i].key))
                     < PairPos(CellFor(ws_mapping, ws_data[j].key))

\* A batch was sent for a record whose keys come in the reverse of the
\* schema's order.
C29_Witness ==
    /\ ws_pc = "done"
    /\ ws_ret.success
    /\ Len(updates) = 2
    /\ Len(ws_mapping) >= 2
    /\ ws_mapping[1].name = ws_data[2].key
    /\ ws_mapping[2].name = ws_data[1].key

\* A write call of the run that the spreadsheet service carried out.
SomeWriteDone ==
    \/ \E n \in DOMAIN batch_log : batch_log[n].ok
    \/ \E n \in DOMAIN row_log : row_log[n].ok

\* C30: when execute_write_logic returns success = False, no write call of
\* the run was carried out; in particular a failed write of the first
\* sheet is not followed by a write of the second sheet.
C30_FailureMeansNothingWritten ==
    (ewl_pc = "done" /\ ~ewl_ret.success) => ~SomeWriteDone

====
